---------------------------- MODULE Spec2Model ----------------------------
(***************************************************************************)
(* LifeOS backend core: the sync orchestrator (core/ingestion.py), the     *)
(* event store and cursor table (core/database.py), the plugin registry    *)
(* (core/plugin_registry.py), the embedding service (core/embedding.py),   *)
(* the retriever (core/retrieval.py) and the pattern analyzers             *)
(* (agents/insight_agent.py).                                              *)
(*                                                                         *)
(* The process is a single asyncio event loop: code between two awaits     *)
(* runs without interleaving, so every action below is one such stretch of *)
(* a coroutine, from the point where it is resumed to its next await or    *)
(* its return.                                                             *)
(***************************************************************************)
EXTENDS Integers, Sequences, FiniteSets, TLC

(***************************************************************************)
(* Bounds of the model.                                                    *)
(***************************************************************************)
MaxAttempts == 2     \* _sync_plugin calls started in one behaviour
MaxBatch == 6        \* texts given to one embed_batch call
MaxCalls == 3        \* direct embed calls started in one behaviour
MaxMixed == 3        \* texts of an embed_batch call whose requests succeed or fail one by one
MaxRows == 3         \* rows of the store that retrieve and the analyzers read
MaxLimit == 2        \* the limit argument of retrieve
MaxEvents == 5       \* rows of a store of arbitrary rows that the analyzers read
MaxClock == 2        \* ticks of the clock while notes are written upstream
MaxSyncs == 2        \* connector syncs that run their embed_batch at the same time
MaxSaved == 4        \* saved findings after which no further run of analyze is started
MaxTexts == 3        \* texts given to embed_batch by each of the concurrent syncs
TruncLen == 2        \* the cut of embed, [:2000] in the code, scaled down

(***************************************************************************)
(* Program constants.                                                      *)
(***************************************************************************)
LookbackDays == 30   \* timedelta(days=30), the default lookback
SemLimit == 5        \* asyncio.Semaphore(5) of embed_batch
EMBEDDING_DIM == 768 \* database.py: the length of the vector column
OllamaDim == 768     \* the length of a nomic-embed-text vector
OpenaiDim == 1536    \* the length of a text-embedding-3-small vector
RecentDays == 7      \* the window of the recency fallback of retrieve
DriftLimit == 50     \* the sample of _detect_goal_drift
ContextLimit == 15   \* the limit get_context_for_agent gives to retrieve
PreviewLen == 50     \* the cut of the content that stands in for a missing title
DayLen == 2          \* ticks of the clock to a day
One == 100           \* the score 1.0

Plugins == {"markdown_files", "github"}
EventIds == {"e1", "e2"}
Kinds == {"sched", "now"}
Slots == Kinds \X Plugins

VARIABLES
    events_table,   \* Database.events_table: the rows of the LanceDB table, in insertion order
    sync_cursors,   \* SQLite table sync_cursors: plugin_name -> last_sync_at
    instances,      \* PluginRegistry._instances: the enabled connectors
    now,            \* the wall clock read by datetime.now()
    att,            \* one _sync_plugin coroutine per slot (scheduled / on-demand, per connector)
    cycle,          \* the _sync_all_plugins coroutine: its gather and its returned total
    started,        \* number of _sync_plugin calls so far
    last,           \* the call of _sync_plugin or sync_plugin_now that returned most recently
    calls,          \* the embed coroutines, in the order they were created
    semaphore,      \* free permits of the semaphore of each embed_batch call, in call order
    cache,          \* EMBEDDING_CACHE_DIR: cache key -> stored vector
    ollama_available, \* EmbeddingService._ollama_available: "none", "yes" or "no"
    openai_key,     \* EmbeddingService.openai_key is set
    batch,          \* the embed_batch calls, in call order: the argument, the list returned
    providers,      \* the answers each provider endpoint can give: TRUE a good answer, FALSE a failure
    retrieval,      \* the ContextRetriever.retrieve coroutine: its arguments, its locals, its result
    analysis,       \* the InsightAgent.analyze coroutine: its locals, the findings it returns
    insights        \* SQLite table insights: the saved findings, in the order they were saved

syncVars == <<events_table, sync_cursors, instances, now, att, cycle, started, last>>

embedVars == <<calls, semaphore, cache, ollama_available, openai_key, batch, providers>>

readVars == <<retrieval, analysis, insights>>

vars == <<syncVars, embedVars, readVars>>

\* what plugin.fetch_events may return: no event, one, two, or the same id twice
FetchResults == {<<>>, <<"e1">>, <<"e2">>, <<"e1", "e2">>, <<"e1", "e1">>}

Ids(ev) == {ev[i] : i \in 1..Len(ev)}

PluginOf(s) == s[2]

\* ContextEvent as fetched by connector p; the id is the dedup key. The
\* columns retrieval and the analyzers read are those of a record of the
\* connector written at clock 0, with the vector its text is given.
ContextEvent(id, p) ==
    [id |-> id, source |-> p,
     event_type |-> IF p = "github" THEN "code.committed" ELSE "note.created",
     timestamp |-> 0, vector |-> "v18", content |-> "plain"]

Events(ev, p) == [i \in 1..Len(ev) |-> ContextEvent(ev[i], p)]

(***************************************************************************)
(* Database                                                                *)
(***************************************************************************)
\* Database.event_exists: a row with this id is in the table
event_exists(tbl, id) == \E i \in 1..Len(tbl) : tbl[i].id = id

\* Database.insert_event: events_table.add(data) appends one row
insert_event(tbl, e) == Append(tbl, e)

\* Database.get_last_sync returns None when the connector has no row
has_last_sync(c, p) == p \in DOMAIN c

\* Database.update_sync_cursor: INSERT OR REPLACE of the connector's row
update_sync_cursor(c, p, ts) ==
    [q \in (DOMAIN c) \cup {p} |-> IF q = p THEN ts ELSE c[q]]

CountId(tbl, id) == Cardinality({i \in 1..Len(tbl) : tbl[i].id = id})

(***************************************************************************)
(* IngestionPipeline._sync_plugin                                          *)
(***************************************************************************)
IdleAtt == [pc |-> "idle", since |-> 0, ids |-> {}, fetched |-> <<>>, new_events |-> <<>>,
            resync |-> FALSE]

Live(s) == att[s].pc \in {"fetching", "embedding"}

\* since = last_sync or (datetime.now() - timedelta(days=30))
Since(c, p, t) == IF has_last_sync(c, p) THEN c[p] ELSE t - LookbackDays

\* lines 105-108: read the cursor, compute since, call plugin.fetch_events(since)
BeginAtt(c, p, t) == [IdleAtt EXCEPT !.pc = "fetching", !.since = Since(c, p, t)]

\* a dedup that drops nothing
NewEventsNoDedup(tbl, evs) == evs

\* a dedup that keeps the stored events instead of the new ones
NewEventsStored(tbl, evs) == SelectSeq(evs, LAMBDA e : event_exists(tbl, e.id))

\* line 113: new_events = [e for e in events if not self.db.event_exists(e.id)]
NewEvents(tbl, evs) == SelectSeq(evs, LAMBDA e : ~event_exists(tbl, e.id))

\* a cursor write that stores the since of the attempt instead of the clock
CursorStampStale(s) == att[s].since

\* an on-demand attempt that writes its since where a scheduled one writes the clock
CursorStampOnDemand(s) == IF s[1] = "now" THEN att[s].since ELSE now

\* lines 115 and 127: the value written to the cursor is datetime.now()
CursorStamp(s) == now

\* lines 123-125: the first k events of new_events inserted, in order
RECURSIVE Persist(_, _, _)
Persist(tbl, evs, k) ==
    IF k = 0 THEN tbl
    ELSE insert_event(Persist(tbl, evs, k - 1), evs[k])

NoCall == [slot |-> <<"none", "none">>, outcome |-> "none", since |-> 0, ids |-> {},
           fetched |-> <<>>, n_new |-> 0, n_ins |-> 0, result |-> 0, raised |-> FALSE,
           wrote |-> FALSE, replaced |-> FALSE, resync |-> FALSE]

\* the outcomes of an attempt that ran to its end without an exception
Completed == {"empty", "no_new", "ok"}

\* what a returning call leaves behind: its return value (result; raised when
\* an exception leaves the call instead) and what it did: its since, the ids it fetched
\* and the list of them as fetch_events returned it,
\* how many events were new at line 113, how many insert_event calls
\* completed, whether it wrote the cursor, whether that write replaced an
\* earlier value, and whether its fetch repeated the fetch of the connector's
\* previous, completed attempt
Returned(s, a, outcome, k, result, wrote) ==
    [slot |-> s, outcome |-> outcome, since |-> a.since, ids |-> a.ids,
     fetched |-> a.fetched, n_new |-> Len(a.new_events), n_ins |-> k, result |-> result, raised |-> FALSE, wrote |-> wrote,
     replaced |-> wrote /\ has_last_sync(sync_cursors, PluginOf(s)),
     resync |-> a.resync]

\* the fetch of slot s returned ev right after an attempt of the same connector
\* ran to completion on the same records
IsResync(s, ev) ==
    /\ last.outcome \in Completed
    /\ PluginOf(last.slot) = PluginOf(s)
    /\ last.ids = Ids(ev)

\* the coroutine of slot s returns r: the gather of _sync_all_plugins keeps the
\* result of a scheduled task, the caller of sync_plugin_now gets the count
Return(s, r) ==
    /\ att' = [att EXCEPT ![s] = IdleAtt]
    /\ last' = r
    /\ cycle' = IF s[1] = "sched"
                THEN [cycle EXCEPT !.results = cycle.results @@ (PluginOf(s) :> r.result)]
                ELSE cycle

\* a handler that also moves the cursor when the fetch raised
FetchRaiseAdvancing(s) ==
    /\ att[s].pc = "fetching"
    /\ sync_cursors' = update_sync_cursor(sync_cursors, PluginOf(s), now)
    /\ Return(s, Returned(s, att[s], "fetch_failed", 0, 0, FALSE))
    /\ UNCHANGED <<events_table, instances, now, started, embedVars, readVars>>

\* line 108 raises: the handler of lines 131-133 logs and returns 0
FetchRaise(s) ==
    /\ att[s].pc = "fetching"
    /\ Return(s, Returned(s, att[s], "fetch_failed", 0, 0, FALSE))
    /\ UNCHANGED <<events_table, sync_cursors, instances, now, started, embedVars, readVars>>

\* line 108 returns ev: lines 109-120, up to the await of embed_batch
FetchReturn(s, ev) ==
    LET p == PluginOf(s)
        evs == Events(ev, p)
        new == NewEvents(events_table, evs)
        a == [att[s] EXCEPT !.ids = Ids(ev), !.fetched = ev, !.new_events = new,
                            !.resync = IsResync(s, ev)]
    IN  /\ att[s].pc = "fetching"
        /\ IF evs = <<>>
           THEN /\ Return(s, Returned(s, a, "empty", 0, 0, FALSE))
                /\ UNCHANGED sync_cursors
           ELSE IF new = <<>>
           THEN /\ sync_cursors' = update_sync_cursor(sync_cursors, p, CursorStamp(s))
                /\ Return(s, Returned(s, a, "no_new", 0, 0, TRUE))
           ELSE /\ att' = [att EXCEPT ![s] = [a EXCEPT !.pc = "embedding"]]
                /\ UNCHANGED <<sync_cursors, cycle, last>>
        /\ UNCHANGED <<events_table, instances, now, started, embedVars, readVars>>

\* line 120 raises: the handler of lines 131-133 logs and returns 0
EmbedRaise(s) ==
    /\ att[s].pc = "embedding"
    /\ Return(s, Returned(s, att[s], "embed_failed", 0, 0, FALSE))
    /\ UNCHANGED <<events_table, sync_cursors, instances, now, started, embedVars, readVars>>

\* the cursor written before the inserts, so that it stays written when one raises
EmbedReturnCursorFirst(s, k) ==
    LET p == PluginOf(s)
        new == att[s].new_events
    IN  /\ att[s].pc = "embedding"
        /\ k \in 0..Len(new)
        /\ sync_cursors' = update_sync_cursor(sync_cursors, p, now)
        /\ events_table' = Persist(events_table, new, k)
        /\ IF k = Len(new)
           THEN Return(s, Returned(s, att[s], "ok", k, Len(new), TRUE))
           ELSE Return(s, Returned(s, att[s], "persist_failed", k, 0, FALSE))
        /\ UNCHANGED <<instances, now, started, embedVars, readVars>>

\* line 120 returns: lines 123-129. insert_event of the event at position k+1
\* raises when k < len(new_events); k = len(new_events) is the run without a raise.
EmbedReturn(s, k) ==
    LET p == PluginOf(s)
        new == att[s].new_events
    IN  /\ att[s].pc = "embedding"
        /\ k \in 0..Len(new)
        /\ events_table' = Persist(events_table, new, k)
        /\ IF k = Len(new)
           THEN /\ sync_cursors' = update_sync_cursor(sync_cursors, p, CursorStamp(s))
                /\ Return(s, Returned(s, att[s], "ok", k, Len(new), TRUE))
           ELSE /\ Return(s, Returned(s, att[s], "persist_failed", k, 0, FALSE))
                /\ UNCHANGED sync_cursors
        /\ UNCHANGED <<instances, now, started, embedVars, readVars>>

(***************************************************************************)
(* IngestionPipeline._sync_all_plugins and sync_plugin_now                 *)
(***************************************************************************)
RECURSIVE SumResults(_)
SumResults(r) ==
    IF DOMAIN r = {} THEN 0
    ELSE LET p == CHOOSE q \in DOMAIN r : TRUE
         IN  r[p] + SumResults([q \in (DOMAIN r) \ {p} |-> r[q]])

IdleCycle == [running |-> FALSE, members |-> {}, results |-> <<>>, total |-> 0]

\* lines 79-88: one _sync_plugin task per enabled instance, each run to its fetch
SyncAll ==
    /\ ~cycle.running
    /\ instances # {}
    /\ started + Cardinality(instances) <= MaxAttempts
    /\ att' = [s \in Slots |->
                 IF s[1] = "sched" /\ s[2] \in instances
                 THEN BeginAtt(sync_cursors, s[2], now)
                 ELSE att[s]]
    /\ cycle' = [IdleCycle EXCEPT !.running = TRUE, !.members = instances]
    /\ started' = started + Cardinality(instances)
    /\ UNCHANGED <<events_table, sync_cursors, instances, now, last, embedVars, readVars>>

\* lines 88-92: gather has every result; total = sum of the int results
SyncAllReturn ==
    /\ cycle.running
    /\ DOMAIN cycle.results = cycle.members
    /\ cycle' = [cycle EXCEPT !.running = FALSE, !.total = SumResults(cycle.results)]
    /\ UNCHANGED <<events_table, sync_cursors, instances, now, att, started, last, embedVars, readVars>>

\* sync_plugin_now, lines 96-99
SyncNow(p) ==
    LET s == <<"now", p>>
    IN  /\ ~Live(s)
        /\ started < MaxAttempts
        /\ IF p \notin instances
           THEN /\ last' = Returned(s, IdleAtt, "not_enabled", 0, 0, FALSE)
                /\ UNCHANGED <<att, started>>
           ELSE /\ att' = [att EXCEPT ![s] = BeginAtt(sync_cursors, p, now)]
                /\ started' = started + 1
                /\ UNCHANGED last
        /\ UNCHANGED <<events_table, sync_cursors, instances, now, cycle, embedVars, readVars>>

\* the dict sync_plugin_now returns, by the call r it made: lines 97-100
sync_plugin_now_result(r) ==
    IF r.outcome = "not_enabled"
    THEN [success |-> FALSE, new_events |-> 0]
    ELSE [success |-> TRUE, new_events |-> r.result]

\* _sync_plugin run to its end at clock t with no other attempt running, as
\* a job of the scheduler runs it: the store and the cursors it leaves when
\* fetch_events returns ev
sync_plugin(tbl, c, p, ev, t) ==
    LET new == NewEvents(tbl, Events(ev, p))
    IN  IF ev = <<>> THEN <<tbl, c>>
        ELSE <<Persist(tbl, new, Len(new)), update_sync_cursor(c, p, t)>>

\* time passes; the clock never goes back. Only calls of _sync_plugin read the
\* clock, so one tick per call started is enough to order their reads.
Tick ==
    /\ now < started
    /\ now' = now + 1
    /\ UNCHANGED <<events_table, sync_cursors, instances, att, cycle, started, last, embedVars, readVars>>

\* no embed_batch call has been made
NoBatch == <<>>

\* every request to a provider may succeed or fail
AnyAnswer == [tags |-> BOOLEAN, ollama |-> BOOLEAN, openai |-> BOOLEAN]

\* the embedding service as constructed, with no embed call made
\* no retrieve call has been made
NoRetrieve ==
    [pc |-> "none", query |-> <<>>, limit |-> 0, days_filter |-> 0, source_filter |-> "",
     call |-> 0, searches |-> 0, path |-> "none", raw_results |-> <<>>, scored |-> <<>>,
     results |-> <<>>, agent |-> FALSE, context |-> <<>>]

\* analyze has not been called
NoAnalysis ==
    [pc |-> "none", with_vectors |-> <<>>, tried |-> <<>>, clusters |-> <<>>,
     insights |-> <<>>]

ReadIdle == retrieval = NoRetrieve /\ analysis = NoAnalysis /\ insights = <<>>

EmbedIdle ==
    /\ calls = <<>>
    /\ semaphore = <<>>
    /\ cache = <<>>
    /\ ollama_available = "none"
    /\ openai_key = FALSE
    /\ batch = NoBatch
    /\ providers = AnyAnswer

\* PluginRegistry.restore_enabled_plugins has run: any set of connectors is enabled
Init ==
    /\ EmbedIdle
    /\ ReadIdle
    /\ events_table = <<>>
    /\ sync_cursors = <<>>
    /\ instances \in {S \in SUBSET Plugins : "github" \in S}
    /\ now = 0
    /\ att = [s \in Slots |-> IdleAtt]
    /\ cycle = IdleCycle
    /\ started = 0
    /\ last = NoCall

Next ==
    \/ SyncAll
    \/ SyncAllReturn
    \/ \E p \in Plugins : SyncNow(p)
    \/ \E s \in Slots : FetchRaise(s)
    \/ \E s \in Slots, ev \in FetchResults : FetchReturn(s, ev)
    \/ \E s \in Slots : EmbedRaise(s)
    \/ \E s \in Slots : \E k \in 0..Len(att[s].new_events) : EmbedReturn(s, k)
    \/ Tick

Spec == Init /\ [][Next]_vars

\* the same program when no two sync attempts overlap: a call of
\* _sync_plugin starts only when none is in flight
Quiet == \A s \in Slots : ~Live(s)

NextSeq ==
    \/ Quiet /\ Cardinality(instances) = 1 /\ SyncAll
    \/ SyncAllReturn
    \/ \E p \in Plugins : Quiet /\ SyncNow(p)
    \/ \E s \in Slots : FetchRaise(s)
    \/ \E s \in Slots, ev \in FetchResults : FetchReturn(s, ev)
    \/ \E s \in Slots : EmbedRaise(s)
    \/ \E s \in Slots : \E k \in 0..Len(att[s].new_events) : EmbedReturn(s, k)
    \/ Tick

SpecSeq == Init /\ [][NextSeq]_vars

(***************************************************************************)
(* MarkdownFilesPlugin.fetch_events over a folder that changes with time   *)
(***************************************************************************)
\* st_mtime of the note behind each id: e1 is in the folder from the start,
\* e2 is written during the first tick
Mtime(id) == IF id = "e1" THEN 0 ELSE 1

\* the notes in glob order
Folder == <<"e1", "e2">>

\* plugin.py lines 78-82 at clock t: a file is there once it is written, and
\* it is skipped when mtime <= since
fetch_events(since, t) ==
    SelectSeq(Folder, LAMBDA id : Mtime(id) <= t /\ ~(Mtime(id) <= since))

\* line 108 returns what the folder holds now
FetchFolder(s) == FetchReturn(s, fetch_events(att[s].since, now))

\* time passes while notes are written
Elapse ==
    /\ now < MaxClock
    /\ now' = now + 1
    /\ UNCHANGED <<events_table, sync_cursors, instances, att, cycle, started, last, embedVars, readVars>>

\* the markdown connector alone is enabled
InitFolder ==
    /\ EmbedIdle
    /\ ReadIdle
    /\ events_table = <<>>
    /\ sync_cursors = <<>>
    /\ instances = {"markdown_files"}
    /\ now = 0
    /\ att = [s \in Slots |-> IdleAtt]
    /\ cycle = IdleCycle
    /\ started = 0
    /\ last = NoCall

NextFolder ==
    \/ SyncAll
    \/ SyncAllReturn
    \/ \E p \in Plugins : SyncNow(p)
    \/ \E s \in Slots : FetchRaise(s)
    \/ \E s \in Slots : FetchFolder(s)
    \/ \E s \in Slots : EmbedRaise(s)
    \/ \E s \in Slots : \E k \in 0..Len(att[s].new_events) : EmbedReturn(s, k)
    \/ Elapse

SpecFolder == InitFolder /\ [][NextFolder]_vars

(***************************************************************************)
(* EmbeddingService                                                        *)
(***************************************************************************)
\* a text is a sequence of characters; Word(n) is a word of n letters
Word(n) == [i \in 1..n |-> "a"]

\* the texts given to embed: blank, a word, the word in blanks, a word of
\* exactly the cut length, a longer word
Texts == {<<" ">>, Word(1), <<" ">> \o Word(1) \o <<" ">>,
          Word(TruncLen), Word(TruncLen + 1)}

RECURSIVE lstrip(_)
lstrip(t) == IF t # <<>> /\ Head(t) = " " THEN lstrip(Tail(t)) ELSE t

RECURSIVE rstrip(_)
rstrip(t) ==
    IF t # <<>> /\ t[Len(t)] = " " THEN rstrip(SubSeq(t, 1, Len(t) - 1)) ELSE t

\* str.strip()
strip(t) == rstrip(lstrip(t))

\* line 60: text = text.strip()[:2000]
Normalize(t) ==
    LET u == strip(t)
    IN  IF Len(u) <= TruncLen THEN u ELSE SubSeq(u, 1, TruncLen)

\* _cache_key: the md5 digest of the text, taken as free of collisions
cache_key(t) == [md5 |-> t]

\* _load_cache finds a file for the key; json round trip of a list of floats is exact
cache_has(c, key) == key \in DOMAIN c

\* a cache that drops what it is given
save_cache_lost(c, key, v) == c

\* _save_cache: the file of the key is written, replacing an earlier one
save_cache(c, key, v) == [k \in (DOMAIN c) \cup {key} |-> IF k = key THEN v ELSE c[k]]

NoVector == [by |-> "none", of |-> <<>>, dim |-> 0]

\* line 62: [0.0] * 768
ZeroVector == [by |-> "zero", of |-> <<>>, dim |-> 768]

\* the length of the vector a network provider answers: nomic-embed-text of
\* Ollama gives 768 numbers, text-embedding-3-small of OpenAI, asked without
\* a dimensions parameter as in lines 107-111, gives 1536
ProviderDim(p) == IF p = "ollama" THEN OllamaDim ELSE OpenaiDim

\* the vector a network provider answers for text t, returned as received
ProviderVector(p, t) == [by |-> p, of |-> t, dim |-> ProviderDim(p)]

\* _embed_fallback: a function of the text alone; (h * 24)[:768] has 768 entries
embed_fallback(t) == [by |-> "stub", of |-> t, dim |-> 768]

\* a call of embed for text t; sem is the number of the embed_batch call
\* whose semaphore guards it, 0 for a direct call
NewCall(t, sem) ==
    [text |-> t, pc |-> IF sem # 0 THEN "queued" ELSE "new", tried |-> <<>>,
     vec |-> NoVector, sem |-> sem]

InFlightPcs == {"check", "ollama", "openai"}

Done(c, v) == [c EXCEPT !.pc = "done", !.vec = v]

Try(c, p) == [c EXCEPT !.pc = p, !.tried = Append(c.tried, p)]

\* a chain whose last member lets its exception out
StubRaises(c) == [c EXCEPT !.pc = "raised"]

\* the stub is computed without an await
Stub(c) == Done([c EXCEPT !.tried = Append(c.tried, "stub")], embed_fallback(c.text))

\* _embed_openai is entered when a key is set, otherwise the stub:
\* lines 71-75 and lines 100-102
Secondary(c) == IF openai_key THEN Try(c, "openai") ELSE Stub(c)

\* a chain that goes to the secondary provider whatever the primary answers
ResolveSecondaryFirst(c, avail) == Secondary(c)

\* lines 69-75, once _check_ollama has returned avail
Resolve(c, avail) == IF avail THEN Try(c, "ollama") ELSE Secondary(c)

\* lines 60-69: up to the first await of embed, or to its return. Line 60
\* rebinds text: from there on the call holds the normalized text only.
Enter(c) ==
    LET t == Normalize(c.text)
        d == [c EXCEPT !.text = t]
    IN  IF t = <<>> THEN Done(d, ZeroVector)
        ELSE IF cache_has(cache, cache_key(t)) THEN Done(d, cache[cache_key(t)])
        ELSE IF ollama_available = "none" THEN [d EXCEPT !.pc = "check"]
        ELSE Resolve(d, ollama_available = "yes")

\* line 77: a call that went through the provider chain saves its vector
Saved(c) ==
    IF c.pc = "done" /\ c.tried # <<>>
    THEN save_cache(cache, cache_key(c.text), c.vec)
    ELSE cache

\* a semaphore that never makes a caller wait
CanAcquireAlways(n) == TRUE

\* asyncio.Semaphore.acquire returns at once while the value is positive
CanAcquire(n) == n > 0

\* call i goes on as c: the cache file is written when it returns, and
\* leaving "async with semaphore" gives its permit back
Continue(i, c) ==
    /\ calls' = [calls EXCEPT ![i] = c]
    /\ cache' = Saved(c)
    /\ semaphore' = IF c.pc = "done" /\ c.sem # 0
                    THEN [semaphore EXCEPT ![c.sem] = @ + 1]
                    ELSE semaphore

\* embed(t) called directly (RetrievalEngine.retrieve, the chat route)
embed(t) ==
    LET c == Enter(NewCall(t, 0))
    IN  /\ Len(calls) < MaxCalls
        /\ calls' = Append(calls, c)
        /\ cache' = Saved(c)
        /\ UNCHANGED <<semaphore, ollama_available, openai_key, batch, providers, syncVars, readVars>>

\* embed_batch(texts), lines 82-86: a new semaphore and one task per text
embed_batch(texts) ==
    /\ calls' = calls \o [i \in 1..Len(texts) |-> NewCall(texts[i], Len(batch) + 1)]
    /\ semaphore' = Append(semaphore, SemLimit)
    /\ batch' = Append(batch, [pc |-> "gather", texts |-> texts, embeddings |-> <<>>])
    /\ UNCHANGED <<cache, ollama_available, openai_key, providers, syncVars, readVars>>

\* a gather that lists the results from the last task to the first
GatheredBackwards(c) == [i \in 1..Len(c) |-> c[Len(c) + 1 - i].vec]

\* asyncio.gather: the results in the order of the awaitables given to it
Gathered(c) == [i \in 1..Len(c) |-> c[i].vec]

\* the embed calls of embed_batch call b, in the order of its texts
BatchCalls(b) == SelectSeq(calls, LAMBDA c : c.sem = b)

\* line 86: every task of call b has returned, gather returns the list of
\* their results
embed_batch_return(b) ==
    /\ batch[b].pc = "gather"
    /\ \A i \in 1..Len(calls) : calls[i].sem = b => calls[i].pc = "done"
    /\ batch' = [batch EXCEPT ![b] = [@ EXCEPT !.pc = "returned",
                                               !.embeddings = Gathered(BatchCalls(b))]]
    /\ UNCHANGED <<calls, semaphore, cache, ollama_available, openai_key, providers, syncVars, readVars>>

\* _embed_one of call i enters "async with semaphore" (the waiters of a
\* semaphore are served in the order they came) and runs embed to its first
\* await
Acquire(i) ==
    LET c == Enter(calls[i])
        b == calls[i].sem
    IN  /\ calls[i].pc = "queued"
        /\ \A j \in 1..(i - 1) : calls[j].sem = b => calls[j].pc # "queued"
        /\ CanAcquire(semaphore[b])
        /\ calls' = [calls EXCEPT ![i] = c]
        /\ cache' = Saved(c)
        /\ semaphore' = IF c.pc = "done" THEN semaphore
                        ELSE [semaphore EXCEPT ![b] = @ - 1]
        /\ UNCHANGED <<ollama_available, openai_key, batch, providers, syncVars, readVars>>

\* _check_ollama, lines 37-43: the GET of /api/tags answers 200 (ok) or fails
check_ollama_return(i, ok) ==
    /\ calls[i].pc = "check"
    /\ ok \in providers.tags
    /\ ollama_available' = IF ok THEN "yes" ELSE "no"
    /\ Continue(i, Resolve(calls[i], ok))
    /\ UNCHANGED <<openai_key, batch, providers, syncVars, readVars>>

\* _embed_ollama, lines 91-102: the POST answers a vector (ok) or raises
embed_ollama_return(i, ok) ==
    LET c == calls[i]
    IN  /\ c.pc = "ollama"
        /\ ok \in providers.ollama
        /\ IF ok
           THEN /\ Continue(i, Done(c, ProviderVector("ollama", c.text)))
                /\ UNCHANGED ollama_available
           ELSE /\ ollama_available' = "no"
                /\ Continue(i, Secondary(c))
        /\ UNCHANGED <<openai_key, batch, providers, syncVars, readVars>>

\* _embed_openai, lines 106-116: the POST answers a vector (ok) or raises
embed_openai_return(i, ok) ==
    LET c == calls[i]
    IN  /\ c.pc = "openai"
        /\ ok \in providers.openai
        /\ IF ok
           THEN Continue(i, Done(c, ProviderVector("openai", c.text)))
           ELSE Continue(i, Stub(c))
        /\ UNCHANGED <<ollama_available, openai_key, batch, providers, syncVars, readVars>>

\* the lists given to embed_batch: up to MaxBatch texts, all equal, or a
\* blank text, a text of the cut length and a word in turn
Patterns == {<<Word(1)>>, <<<<" ">>, Word(TruncLen), Word(1)>>}

\* the lists of 1 to max texts that repeat one of the patterns pats
Inputs(max, pats) ==
    {[i \in 1..n |-> pat[((i - 1) % Len(pat)) + 1]] : n \in 1..max, pat \in pats}

BatchInputs == Inputs(MaxBatch, Patterns)

\* the service of a process whose cache directory may hold a vector written
\* by an earlier run, with or without OPENAI_API_KEY
InitEmbedding(answers) ==
    /\ ReadIdle
    /\ events_table = <<>>
    /\ sync_cursors = <<>>
    /\ instances = {}
    /\ now = 0
    /\ att = [s \in Slots |-> IdleAtt]
    /\ cycle = IdleCycle
    /\ started = 0
    /\ last = NoCall
    /\ calls = <<>>
    /\ semaphore = <<>>
    /\ cache \in {<<>>, cache_key(Word(1)) :> ProviderVector("ollama", Word(1))}
    /\ ollama_available = "none"
    /\ openai_key \in BOOLEAN
    /\ batch = NoBatch
    /\ providers \in answers

Returns ==
    \E i \in 1..Len(calls), ok \in BOOLEAN :
        \/ check_ollama_return(i, ok)
        \/ embed_ollama_return(i, ok)
        \/ embed_openai_return(i, ok)

\* one embed_batch call
NextBatch ==
    \/ \E texts \in BatchInputs : batch = NoBatch /\ embed_batch(texts)
    \/ \E i \in 1..Len(calls) : Acquire(i)
    \/ Returns
    \/ \E b \in 1..Len(batch) : embed_batch_return(b)

\* every request to a provider ends, with an answer or with the timeout of
\* its httpx client, and the event loop runs every task that is ready
\* during one batch each endpoint either answers every request or fails
\* every one; an endpoint that is never asked is listed as failing
SteadyAnswers ==
    {a \in [tags : {{TRUE}, {FALSE}}, ollama : {{TRUE}, {FALSE}}, openai : {{TRUE}, {FALSE}}] :
        a.tags = {FALSE} => a.ollama = {FALSE}}

InitBatch ==
    /\ InitEmbedding(SteadyAnswers)
    /\ openai_key \/ providers.openai = {FALSE}

SpecBatch == InitBatch /\ [][NextBatch]_vars /\ WF_vars(NextBatch)

\* the texts of the new events of one connector sync
SyncInputs == Inputs(MaxTexts, {<<Word(1)>>})

\* the syncs of _sync_all_plugins run in one gather, and each calls
\* embed_batch on the one embedding service while the others are running
NextConcurrent ==
    \/ \E texts \in SyncInputs : Len(batch) < MaxSyncs /\ embed_batch(texts)
    \/ \E i \in 1..Len(calls) : Acquire(i)
    \/ Returns
    \/ \E b \in 1..Len(batch) : embed_batch_return(b)

SpecConcurrent == InitBatch /\ [][NextConcurrent]_vars

InitCache == InitEmbedding({AnyAnswer})

\* short lists of texts: all different, with a blank one and with two of the
\* same normalized form, or all equal
MixedPatterns == {<<Word(TruncLen + 1), <<" ">>, Word(1), Word(TruncLen)>>, <<Word(1)>>}

MixedInputs == Inputs(MaxMixed, MixedPatterns)

\* one embed_batch call whose requests succeed or fail independently
NextBatchMixed ==
    \/ \E texts \in MixedInputs : batch = NoBatch /\ embed_batch(texts)
    \/ \E i \in 1..Len(calls) : Acquire(i)
    \/ Returns
    \/ \E b \in 1..Len(batch) : embed_batch_return(b)

SpecBatchMixed == InitCache /\ [][NextBatchMixed]_vars

\* embed calls made one by one or overlapping
NextCache ==
    \/ \E t \in Texts : embed(t)
    \/ Returns

SpecCache == InitCache /\ [][NextCache]_vars

(***************************************************************************)
(* The periodic sync with the embedding service behind it                  *)
(***************************************************************************)
\* the length of the vectors embed_batch returns while the providers answer
\* steadily: _check_ollama has cached its answer, and the chain of embed
\* ends at Ollama, at OpenAI when a key is set, or at the stub
BatchDim ==
    IF ollama_available = "yes" THEN ProviderDim("ollama")
    ELSE IF openai_key THEN ProviderDim("openai")
    ELSE embed_fallback(<<>>).dim

\* events_table.add raises for a vector that is not of the length of the
\* vector column of the schema
InsertRaises(dim) == dim # EMBEDDING_DIM

\* line 120 returns the vectors of the providers: lines 123-129, where the
\* first insert_event raises when the vectors do not fit the column
EmbedBatchDone(s) ==
    EmbedReturn(s, IF InsertRaises(BatchDim) THEN 0 ELSE Len(att[s].new_events))

\* the service after its first embed call: the answer of _check_ollama is cached
InitRetry ==
    /\ ReadIdle
    /\ calls = <<>>
    /\ semaphore = <<>>
    /\ cache = <<>>
    /\ ollama_available \in {"yes", "no"}
    /\ openai_key \in BOOLEAN
    /\ batch = NoBatch
    /\ providers = AnyAnswer
    /\ events_table = <<>>
    /\ sync_cursors = <<>>
    /\ instances \in {S \in SUBSET Plugins : "github" \in S}
    /\ now = 0
    /\ att = [s \in Slots |-> IdleAtt]
    /\ cycle = IdleCycle
    /\ started = 0
    /\ last = NoCall

\* a fetch ends: it raises or it returns
FetchEnds == \E s \in Slots : FetchRaise(s) \/ \E ev \in FetchResults : FetchReturn(s, ev)

NextRetry ==
    \/ SyncAll
    \/ SyncAllReturn
    \/ \E s \in Slots : FetchRaise(s)
    \/ \E s \in Slots, ev \in FetchResults : FetchReturn(s, ev)
    \/ \E s \in Slots : EmbedBatchDone(s)
    \/ Tick

\* the interval trigger fires again and again; every request of a connector
\* or of a provider ends, with an answer or with its timeout
SpecRetry ==
    /\ InitRetry
    /\ [][NextRetry]_vars
    /\ WF_vars(SyncAll)
    /\ WF_vars(SyncAllReturn)
    /\ WF_vars(FetchEnds)
    /\ WF_vars(\E s \in Slots : EmbedBatchDone(s))

(***************************************************************************)
(* Properties of the sync orchestrator                                     *)
(***************************************************************************)
\* the call of slot s returns in this step
Ends(s) == Live(s) /\ att'[s].pc = "idle"

SameCursor(q) ==
    /\ has_last_sync(sync_cursors', q) <=> has_last_sync(sync_cursors, q)
    /\ has_last_sync(sync_cursors, q) => sync_cursors'[q] = sync_cursors[q]

\* C1: after any sequence of sync attempts that do not overlap, the event
\* store holds at most one row per id.
C1_UniqueIds == \A id \in EventIds : CountId(events_table, id) <= 1

\* C2: every value written to a connector's cursor is greater than or equal to
\* the value it replaces, whatever the interleaving of the attempts.
C2_CursorMonotone ==
    [][\A p \in Plugins :
          has_last_sync(sync_cursors, p) =>
              /\ has_last_sync(sync_cursors', p)
              /\ sync_cursors'[p] >= sync_cursors[p]]_vars

\* an attempt that began when its connector had no cursor (its since is the
\* lookback default) has replaced the cursor that an overlapping attempt of
\* the same connector wrote meanwhile, after the clock moved
C2_Witness ==
    /\ last.replaced
    /\ last.since < 0
    /\ sync_cursors[PluginOf(last.slot)] >= 1

\* C3: an attempt whose fetch raises returns 0, lets no exception out, and
\* leaves every cursor and the event store as they were.
C3_FetchFailureIsolated ==
    [][\A s \in Slots :
          (Ends(s) /\ last'.outcome = "fetch_failed") =>
              /\ last'.slot = s
              /\ last'.result = 0
              /\ ~last'.raised
              /\ sync_cursors' = sync_cursors
              /\ events_table' = events_table]_vars

\* a fetch has raised while the store held rows and another connector had a cursor
C3_Witness ==
    /\ last.outcome = "fetch_failed"
    /\ events_table # <<>>
    /\ \E q \in Plugins \ {PluginOf(last.slot)} : has_last_sync(sync_cursors, q)

\* C4: the cursor is written only in the last step of an attempt, after the
\* fetch, the dedup, the embedding and the insert of every new event; an
\* attempt in which one of these raises never writes a cursor.
C4_CursorWriteLast ==
    [][/\ \A p \in Plugins :
             ~SameCursor(p) =>
                 \E s \in Slots : PluginOf(s) = p /\ Ends(s) /\ last'.wrote
       /\ \A s \in Slots :
             Ends(s) =>
                 /\ last'.slot = s
                 /\ last'.wrote =>
                        /\ last'.outcome \in {"ok", "no_new"}
                        /\ last'.n_ins = last'.n_new
                        /\ Len(events_table') = Len(events_table) + last'.n_new
                 /\ last'.outcome \notin Completed =>
                        /\ ~last'.wrote
                        /\ sync_cursors' = sync_cursors]_vars

\* an insert has raised after an earlier insert of the same attempt went
\* through, and the connector still has no cursor
C4_Witness ==
    /\ last.outcome = "persist_failed"
    /\ last.n_ins >= 1
    /\ ~has_last_sync(sync_cursors, PluginOf(last.slot))

\* C5: an attempt whose fetch succeeds and that has no new event after the
\* dedup (nothing fetched, or every fetched id already stored) advances the
\* connector's cursor to the current time.
C5_ZeroNewAdvances ==
    [][\A s \in Slots :
          (Ends(s) /\ last'.outcome \in {"empty", "no_new"}) =>
              /\ last'.wrote
              /\ has_last_sync(sync_cursors', PluginOf(s))
              /\ sync_cursors'[PluginOf(s)] = now]_vars

\* C6: when the fetch returns again the records of the connector's previous,
\* completed attempt, the attempt inserts nothing, returns 0 and changes
\* nothing but that connector's cursor.
C6_IdempotentResync ==
    [][\A s \in Slots :
          (/\ att[s].pc = "fetching"
           /\ att'[s].pc # "fetching"
           /\ IF att'[s].pc = "idle" THEN last'.resync ELSE att'[s].resync) =>
              /\ att'[s].pc = "idle"
              /\ last'.slot = s
              /\ last'.outcome \in Completed
              /\ last'.result = 0
              /\ last'.n_ins = 0
              /\ events_table' = events_table
              /\ \A q \in Plugins \ {PluginOf(s)} : SameCursor(q)]_vars

\* a fetch has returned the stored records of the previous attempt again
C6_Witness ==
    /\ last.resync
    /\ last.ids # {}
    /\ last.outcome = "no_new"
    /\ last.replaced

\* C7: insert_event of an event whose id is already stored leaves the number
\* of rows unchanged and leaves exactly one row with that id, the one given.
C7_InsertReplaces ==
    [][\A s \in Slots :
          (att[s].pc = "embedding" /\ Ends(s)) =>
              \A i \in 1..last'.n_ins :
                  LET new == att[s].new_events
                      before == Persist(events_table, new, i - 1)
                      after == insert_event(before, new[i])
                  IN  event_exists(before, new[i].id) =>
                          /\ Len(after) = Len(before)
                          /\ CountId(after, new[i].id) = 1
                          /\ \E j \in 1..Len(after) : after[j] = new[i]]_vars

\* C8: in a sync of all connectors, every connector that does not fail has
\* all its new events inserted and its cursor advanced, a failing connector
\* contributes 0, and the total is the sum of the new-event counts of the
\* connectors that did not fail.
C8_FanOutIsolation ==
    [][/\ \A s \in Slots :
             (s[1] = "sched" /\ Ends(s)) =>
                 IF last'.outcome \in Completed
                 THEN /\ last'.n_ins = last'.n_new
                      /\ last'.wrote
                      /\ cycle'.results[PluginOf(s)] = last'.n_new
                 ELSE cycle'.results[PluginOf(s)] = 0
       /\ (cycle.running /\ ~cycle'.running) =>
             cycle'.total = SumResults(cycle.results)]_vars

(***************************************************************************)
(* Properties of the embedding service                                     *)
(***************************************************************************)
\* the embed calls that wait for the answer of a provider
InFlight == Cardinality({i \in 1..Len(calls) : calls[i].pc \in InFlightPcs})

AllEmbedded ==
    /\ calls # <<>>
    /\ \A i \in 1..Len(calls) : calls[i].pc = "done" /\ calls[i].vec # NoVector

\* C9: during one embed_batch call, at most 5 embed calls of the batch are in
\* flight to a provider at any time, and every text of the batch is
\* eventually embedded.
C9_BatchBound ==
    /\ [](InFlight <= SemLimit)
    /\ (calls # <<>>) ~> AllEmbedded

\* five calls of a batch wait for a provider while another waits for the semaphore
C9_Witness ==
    /\ InFlight = SemLimit
    /\ \E i \in 1..Len(calls) : calls[i].pc = "queued"

\* the requests call c has sent to the network providers
NetworkCalls(c) ==
    Cardinality({k \in 1..Len(c.tried) : c.tried[k] \in {"ollama", "openai"}})

\* the providers of the chain call c has used, the stub counted as one
ChainCalls(c) == Len(c.tried)

\* two calls past line 60 with the same, non-empty normalized text
SameText(c, d) == c.text = d.text /\ c.text # <<>>

\* the calls that have completed for the text of c
CompletedFor(c) ==
    {i \in 1..Len(calls) : calls[i].pc = "done" /\ SameText(calls[i], c)}

\* embed is called in this step
Embeds == Len(calls') = Len(calls) + 1

\* C10 as stated: after embed(t) has completed for a non-empty text, a later
\* embed of a text with the same normalized form issues no provider call and
\* returns the same vector, and the two calls together issue exactly one
\* provider call (whether or not the stub is counted as a provider).
C10_ExactlyOneCall ==
    [][Embeds =>
          LET c == calls'[Len(calls')]
          IN  \A i \in CompletedFor(c) :
                  /\ c.pc = "done"
                  /\ c.tried = <<>>
                  /\ c.vec = calls[i].vec
                  /\ calls[i].tried # <<>> =>
                         \/ NetworkCalls(calls[i]) + NetworkCalls(c) = 1
                         \/ ChainCalls(calls[i]) + ChainCalls(c) = 1]_vars

\* C10, amended: after embed(t) has completed for a non-empty text, a later
\* embed of a text with the same normalized form issues no provider call and
\* returns the vector the cache holds for the text. That vector was returned
\* by a completed embed of the text, and it is the first call's vector
\* whenever at most one completed embed of the text went to the providers.
\* The two calls together issue the provider calls of the first call only:
\* one for each provider tried along the chain, at most two network requests
\* and the stub.
C10_CacheShortCircuits ==
    [][Embeds =>
          LET c == calls'[Len(calls')]
              key == cache_key(c.text)
              D == CompletedFor(c)
          IN  D # {} =>
                  /\ c.pc = "done"
                  /\ c.tried = <<>>
                  /\ cache' = cache
                  /\ c.vec = cache[key]
                  /\ \E i \in D : c.vec = calls[i].vec
                  /\ Cardinality({i \in D : calls[i].tried # <<>>}) <= 1 =>
                         \A i \in D : c.vec = calls[i].vec
                  /\ \A i \in D :
                         /\ NetworkCalls(calls[i]) + NetworkCalls(c) = NetworkCalls(calls[i])
                         /\ NetworkCalls(calls[i]) <= 2
                         /\ ChainCalls(calls[i]) <= 3]_vars

\* a text has been embedded twice, the first call going to both network
\* providers and the second taking the vector of the first from the cache
C10_Witness ==
    /\ Len(calls) = 2
    /\ calls[1].pc = "done" /\ calls[2].pc = "done"
    /\ SameText(calls[1], calls[2])
    /\ Len(calls[1].text) = TruncLen
    /\ calls[1].tried = <<"ollama", "openai">>
    /\ calls[2].tried = <<>>
    /\ calls[2].vec = calls[1].vec

\* v is an embedding of text t: the zero vector for a blank text, otherwise a
\* vector that a member of the chain made for the normalized text
IsEmbeddingOf(v, t) ==
    IF Normalize(t) = <<>> THEN v = ZeroVector
    ELSE v.of = Normalize(t) /\ v.by \in {"ollama", "openai", "stub"}

\* C11: the list embed_batch returns has the length of its argument and its
\* i-th vector is the embedding of the i-th text, in whatever order the
\* embed calls completed.
C11_BatchOrder ==
    \A b \in 1..Len(batch) :
        batch[b].pc = "returned" =>
            /\ Len(batch[b].embeddings) = Len(batch[b].texts)
            /\ \A i \in 1..Len(batch[b].texts) :
                   IsEmbeddingOf(batch[b].embeddings[i], batch[b].texts[i])

\* a batch of three different texts has returned, the first embedded by the
\* stub after both network providers failed, the last by the primary provider
C11_Witness ==
    /\ Len(batch) = 1
    /\ batch[1].pc = "returned"
    /\ Len(batch[1].texts) = MaxMixed
    /\ batch[1].texts[1] # batch[1].texts[MaxMixed]
    /\ calls[1].tried = <<"ollama", "openai", "stub">>
    /\ batch[1].embeddings[MaxMixed].by = "ollama"

IsVector(v) == v.by \in {"zero", "ollama", "openai", "stub"}

\* C12: whichever provider requests fail, no embed call raises: a call that
\* has returned has returned a vector, the vector of a call that has
\* returned is not lost, and the batch returns one vector per text.
C12_EmbedNeverRaises ==
    /\ [](\A i \in 1..Len(calls) :
             /\ calls[i].pc # "raised"
             /\ calls[i].pc = "done" => IsVector(calls[i].vec))
    /\ [](\A b \in 1..Len(batch) :
             batch[b].pc = "returned" =>
                 /\ Len(batch[b].embeddings) = Len(batch[b].texts)
                 /\ \A i \in 1..Len(batch[b].texts) : IsVector(batch[b].embeddings[i]))
    /\ [][\A i \in 1..Len(calls) : calls[i].pc = "done" => calls'[i] = calls[i]]_vars

\* a batch has returned in which every provider failed for one text, no
\* provider was needed for a blank text, and another text got its vector
\* from a network provider
C12_Witness ==
    /\ Len(batch) = 1
    /\ batch[1].pc = "returned"
    /\ \E i, j, k \in 1..Len(calls) :
          /\ calls[i].tried = <<"ollama", "openai", "stub">>
          /\ batch[1].embeddings[j] = ZeroVector
          /\ batch[1].embeddings[k].by \in {"ollama", "openai"}

\* C13: every vector embed returns has 768 entries, whichever member of the
\* chain made it.
C13_Dimension ==
    \A i \in 1..Len(calls) : calls[i].pc = "done" => calls[i].vec.dim = EMBEDDING_DIM

(***************************************************************************)
(* ContextRetriever.retrieve and the store queries it uses                 *)
(*                                                                         *)
(* Timestamps are integers, DayLen to a day, and the clock stands at 0, so *)
(* a row written a days and h ticks ago has timestamp -(a * DayLen + h).   *)
(* Distances, weights and scores are in hundredths.                        *)
(***************************************************************************)
Min(a, b) == IF a < b THEN a ELSE b

Max(a, b) == IF a > b THEN a ELSE b

\* sorted(s, key) of Python for the integer keys k[i] of s[i]: ascending,
\* equal keys keep their order
StableAsc(s, k) ==
    LET pos(i) == Cardinality({j \in 1..Len(s) : k[j] < k[i] \/ (k[j] = k[i] /\ j < i)}) + 1
    IN  [p \in 1..Len(s) |-> s[CHOOSE i \in 1..Len(s) : pos(i) = p]]

\* sorted(s, key, reverse=True): descending, equal keys keep their order
StableDesc(s, k) == StableAsc(s, [i \in 1..Len(s) |-> 0 - k[i]])

Head_n(s, n) == SubSeq(s, 1, Min(n, Len(s)))

\* the squared L2 distance LanceDB reports between the query vector and a
\* stored vector, by the stored vector; the vectors of the providers and of
\* the stub have length 1, so the all-zero vector is at distance 1
distance(v) ==
    CASE v = "v0" -> 0
      [] v = "zero" -> One
      [] v = "v18" -> 18
      [] v = "v19" -> 19
      [] v = "v21" -> 21
      [] v = "v60" -> 60

\* a row of the events table written age ticks ago
Event(id, source, event_type, age, v, content) ==
    [id |-> id, source |-> source, event_type |-> event_type, timestamp |-> 0 - age,
     vector |-> v, content |-> content]

\* a commit or a note as the connector of the source writes it
Row(id, source, age, v) ==
    Event(id, source, IF source = "github" THEN "code.committed" ELSE "note.created", age, v,
          "plain")

\* rows a store is made of: two fresh ones of one source whose distances
\* are neighbours, an older one at the same distance as the first, an exact
\* match just outside a 7-day window, an old distant one, a fresh one of
\* the other source
RowPool ==
    { Row("r1", "github", 0, "v18"),
      Row("r2", "github", 0, "v19"),
      Row("r3", "markdown_files", 6 * DayLen + 1, "v18"),
      Row("r4", "markdown_files", 7 * DayLen + 1, "v0"),
      Row("r5", "github", 15 * DayLen, "v60"),
      Row("r6", "markdown_files", 0, "v21") }

RECURSIVE SeqsOf(_, _)
\* the lists of at most n different members of S
SeqsOf(S, n) ==
    IF n = 0 THEN {<<>>}
    ELSE LET shorter == SeqsOf(S, n - 1)
         IN  shorter \cup {Append(q, x) : q \in {r \in shorter : Len(r) = n - 1}, x \in S}

NoRepeat(q) == \A i, j \in 1..Len(q) : i # j => q[i] # q[j]

Stores == {q \in SeqsOf(RowPool, MaxRows) : NoRepeat(q)}

\* Database.get_recent_events: the first limit rows of the window in scan
\* order, then sorted by timestamp, newest first
get_recent_events(tbl, t, days, limit) ==
    LET since == t - days * DayLen
        results == Head_n(SelectSeq(tbl, LAMBDA r : r.timestamp >= since), limit)
    IN  StableDesc(results, [i \in 1..Len(results) |-> results[i].timestamp])

\* a row as vector_search returns it: its columns and _distance
Candidate(r) == [distance |-> distance(r.vector)] @@ r

\* Database.vector_search: the limit nearest rows, nearest first; a query
\* vector that is not of the table's dimension makes the search raise, and
\* the except clause returns the empty list
vector_search(tbl, query_vector, limit) ==
    IF query_vector.dim # EMBEDDING_DIM THEN <<>>
    ELSE LET all == [i \in 1..Len(tbl) |-> Candidate(tbl[i])]
         IN  Head_n(StableAsc(all, [i \in 1..Len(all) |-> all[i].distance]), limit)

\* line 48: 1.0 - (distance or 0.5); a distance of 0.0 is falsy in Python
semantic_score(c) == One - (IF c.distance = 0 THEN 50 ELSE c.distance)

\* line 51
days_ago(t, c) == Max(0, (t - c.timestamp) \div DayLen)

\* math.exp(-0.05 * d) for d = 0, 1, ..., rounded to hundredths
ExpTable == <<100, 95, 90, 86, 82, 78, 74, 70, 67, 64, 61, 58, 55, 52, 50, 47, 45>>

\* line 53
time_weight(d) == ExpTable[d + 1]

\* x / k rounded to the nearest unit: a floating-point product is rounded
\* to the nearest value the arithmetic can represent
Round(x, k) == (2 * x + k) \div (2 * k)

\* a rerank that prefers old rows
final_score_aged(s, w) == Round(s * 7, 10) - Round(w * 3, 10)

\* line 57
final_score(s, w) == Round(s * 7, 10) + Round(w * 3, 10)

\* line 58: {**r, "_score": final_score}
Scored(t, c) == [score |-> final_score(semantic_score(c), time_weight(days_ago(t, c)))] @@ c

\* lines 74-76: the internal fields are removed
Cleaned(c) == [f \in (DOMAIN c) \ {"distance", "vector"} |-> c[f]]

\* lines 61-64; a days_filter of None or 0 filters nothing
PassesDays(t, days_filter, c) == days_filter = 0 \/ c.timestamp >= t - days_filter * DayLen

\* lines 66-67; a source_filter of None or "" filters nothing
PassesSource(source_filter, c) == source_filter = "" \/ c.source = source_filter

\* truncation before the filters
RankTruncateFirst(scored, t, limit, days_filter, source_filter) ==
    LET sorted == StableDesc(scored, [i \in 1..Len(scored) |-> scored[i].score])
    IN  SelectSeq(Head_n(sorted, limit),
                  LAMBDA c : PassesDays(t, days_filter, c) /\ PassesSource(source_filter, c))

\* lines 61-73: filter, sort by score, truncate
Rank(scored, t, limit, days_filter, source_filter) ==
    LET kept == SelectSeq(scored,
                    LAMBDA c : PassesDays(t, days_filter, c) /\ PassesSource(source_filter, c))
    IN  Head_n(StableDesc(kept, [i \in 1..Len(kept) |-> kept[i].score]), limit)

\* a test of the query as given
IsBlankUnstripped(query) == query = <<>>

\* line 34
IsBlank(query) == strip(query) = <<>>

\* a string is a sequence of pieces: a piece is one character, or a text
\* without a line break that is written as a whole
Placeholder == <<"(no related context records)">>

\* timestamp[:10], the date of the ISO timestamp
DateText(e) == ToString(e.timestamp \div DayLen)

\* e.get("title") or e.get("content", "")[:50]
TitleText(e) ==
    IF "title" \in DOMAIN e /\ e.title # <<>> THEN e.title
    ELSE IF "content" \in DOMAIN e THEN Head_n(e.content, PreviewLen)
    ELSE <<>>

\* line 93: f"- [{ts}][{source}] {title}"
ContextLine(e) == <<"- [", DateText(e), "][", e.source, "] ">> \o TitleText(e)

RECURSIVE Join(_)
\* "\n".join(lines)
Join(lines) ==
    IF lines = <<>> THEN <<>>
    ELSE IF Len(lines) = 1 THEN lines[1]
    ELSE lines[1] \o <<"\n">> \o Join(Tail(lines))

\* lines 85-95 of get_context_for_agent: the string made of the events
Format(events) ==
    IF events = <<>> THEN Placeholder
    ELSE Join([i \in 1..Len(events) |-> ContextLine(events[i])])

\* retrieve returns to its caller: get_context_for_agent goes on to its
\* own return
Deliver(r) ==
    IF r.agent /\ r.pc = "returned" THEN [r EXCEPT !.context = Format(r.results)] ELSE r

\* lines 39-78, once embed has returned query_embedding
Search(r, query_embedding) ==
    LET raw_results == vector_search(events_table, query_embedding, Min(50, r.limit * 5))
        scored == [i \in 1..Len(raw_results) |-> Scored(now, raw_results[i])]
        ranked == Rank(scored, now, r.limit, r.days_filter, r.source_filter)
    IN  IF raw_results = <<>>
        THEN [r EXCEPT !.pc = "returned", !.searches = r.searches + 1, !.path = "empty",
                       !.results = get_recent_events(events_table, now,
                                       IF r.days_filter # 0 THEN r.days_filter ELSE RecentDays,
                                       r.limit)]
        ELSE [r EXCEPT !.pc = "returned", !.searches = r.searches + 1, !.path = "scored",
                       !.raw_results = raw_results, !.scored = scored,
                       !.results = [i \in 1..Len(ranked) |-> Cleaned(ranked[i])]]

\* retrieve(query, limit, days_filter, source_filter), up to its return or
\* to the first await of its embed call
StartRetrieve(r) ==
    LET c == Enter(NewCall(r.query, 0))
    IN  /\ retrieval.pc = "none"
        /\ IF IsBlank(r.query)
           THEN /\ retrieval' = Deliver([r EXCEPT !.pc = "returned", !.path = "blank",
                                   !.results = get_recent_events(events_table, now, RecentDays,
                                                                 r.limit)])
                /\ UNCHANGED <<calls, cache>>
           ELSE /\ calls' = Append(calls, c)
                /\ cache' = Saved(c)
                /\ retrieval' = IF c.pc = "done"
                                THEN Deliver(Search([r EXCEPT !.call = Len(calls) + 1], c.vec))
                                ELSE [r EXCEPT !.pc = "embed", !.call = Len(calls) + 1]
        /\ UNCHANGED <<semaphore, ollama_available, openai_key, batch, providers, syncVars,
                       analysis, insights>>

retrieve(query, limit, days_filter, source_filter) ==
    StartRetrieve([NoRetrieve EXCEPT !.query = query, !.limit = limit,
                                     !.days_filter = days_filter,
                                     !.source_filter = source_filter])

\* get_context_for_agent(topic, days): line 84 calls
\* retrieve(topic, limit=15, days_filter=days); lines 85-95 follow its return
get_context_for_agent(topic, days) ==
    StartRetrieve([NoRetrieve EXCEPT !.query = topic, !.limit = ContextLimit,
                                     !.days_filter = days, !.agent = TRUE])

\* the embed call of retrieve has returned: lines 39-78
retrieve_return ==
    /\ retrieval.pc = "embed"
    /\ calls[retrieval.call].pc = "done"
    /\ retrieval' = Deliver(Search(retrieval, calls[retrieval.call].vec))
    /\ UNCHANGED <<embedVars, syncVars, analysis, insights>>

Queries == {<<>>, <<" ">>, Word(1)}

DaysFilters == {0, RecentDays}

SourceFilters == {"", "markdown_files"}

InitRetrieve ==
    /\ events_table \in Stores
    /\ sync_cursors = <<>>
    /\ instances = {}
    /\ now = 0
    /\ att = [s \in Slots |-> IdleAtt]
    /\ cycle = IdleCycle
    /\ started = 0
    /\ last = NoCall
    /\ calls = <<>>
    /\ semaphore = <<>>
    /\ cache \in {<<>>, cache_key(Word(1)) :> ProviderVector("ollama", Word(1))}
    /\ ollama_available = "none"
    /\ openai_key \in BOOLEAN
    /\ batch = NoBatch
    /\ providers = AnyAnswer
    /\ ReadIdle

NextRetrieve ==
    \/ \E query \in Queries, limit \in 1..MaxLimit, days_filter \in DaysFilters,
          source_filter \in SourceFilters : retrieve(query, limit, days_filter, source_filter)
    \/ Returns
    \/ retrieve_return

SpecRetrieve == InitRetrieve /\ [][NextRetrieve]_vars

\* rows of a store in which one record was not embedded: insert_event,
\* line 140, has written [0.0] * 768 as its vector
SentinelPool ==
    { Row("r1", "github", 0, "v18"),
      Row("r6", "markdown_files", 0, "v21"),
      Row("z1", "github", 0, "zero") }

InitSentinel ==
    /\ events_table \in {q \in SeqsOf(SentinelPool, MaxRows) : NoRepeat(q)}
    /\ sync_cursors = <<>>
    /\ instances = {}
    /\ now = 0
    /\ att = [s \in Slots |-> IdleAtt]
    /\ cycle = IdleCycle
    /\ started = 0
    /\ last = NoCall
    /\ calls = <<>>
    /\ semaphore = <<>>
    /\ cache \in {<<>>, cache_key(Word(1)) :> ProviderVector("ollama", Word(1))}
    /\ ollama_available = "none"
    /\ openai_key \in BOOLEAN
    /\ batch = NoBatch
    /\ providers = AnyAnswer
    /\ ReadIdle

SpecSentinel == InitSentinel /\ [][NextRetrieve]_vars

\* a row with the title its connector gave it
Titled(e, title) == [title |-> title] @@ e

\* rows whose text the digest shows: a titled commit; a note whose title is
\* empty; a note that opens with an empty heading, so its title is empty and
\* its content has a line break; an old commit with no title and a content
\* longer than the cut
ContextPool ==
    { Titled(Event("k1", "github", "code.committed", 0, "v18", <<"c">>), <<"t">>),
      Titled(Event("k2", "markdown_files", "note.created", DayLen, "v19", <<"c">>), <<>>),
      Titled(Event("k3", "markdown_files", "note.created", 0, "v21",
                   <<"#", " ", "\n", "b">>), <<>>),
      Titled(Event("k4", "github", "code.committed", 8 * DayLen, "v60",
                   Word(PreviewLen + 1)), <<>>) }

ContextStores == {q \in SeqsOf(ContextPool, MaxRows) : NoRepeat(q)}

\* the days argument: the default, and the value the chat route gives
ContextDays == {RecentDays, LookbackDays}

InitContext ==
    /\ events_table \in ContextStores
    /\ sync_cursors = <<>>
    /\ instances = {}
    /\ now = 0
    /\ att = [s \in Slots |-> IdleAtt]
    /\ cycle = IdleCycle
    /\ started = 0
    /\ last = NoCall
    /\ calls = <<>>
    /\ semaphore = <<>>
    /\ cache \in {<<>>, cache_key(Word(1)) :> ProviderVector("ollama", Word(1))}
    /\ ollama_available = "none"
    /\ openai_key \in BOOLEAN
    /\ batch = NoBatch
    /\ providers = AnyAnswer
    /\ ReadIdle

NextContext ==
    \/ \E topic \in Queries, days \in ContextDays : get_context_for_agent(topic, days)
    \/ Returns
    \/ retrieve_return

SpecContext == InitContext /\ [][NextContext]_vars

(***************************************************************************)
(* InsightAgent                                                            *)
(***************************************************************************)
\* the cosine similarity of two stored vectors as line 78 computes it, in
\* hundredths
cosine(u, v) ==
    IF u = v THEN 100
    ELSE CASE {u, v} = {"a0", "a1"} -> 83
           [] {u, v} = {"a0", "a2"} -> 82
           [] {u, v} = {"a0", "a3"} -> 50
           [] {u, v} = {"a1", "a2"} -> 90
           [] {u, v} = {"a1", "a3"} -> 63
           [] {u, v} = {"a2", "a3"} -> 90
           [] OTHER -> 10

\* lines 58-59: the row has a vector with a non-zero entry
HasVector(e) == e.vector # "zero"

\* timestamp[:10], the calendar day of a row
day(e) == e.timestamp \div DayLen

\* a threshold that lets the boundary value in
SimilarOrEqual(sim) == sim >= 82

\* line 84: sim > 0.82
Similar(sim) == sim > 82

\* lines 78-84
Merges(e1, e2) ==
    /\ Similar(cosine(e1.vector, e2.vector))
    /\ (e1.source # e2.source \/ day(e1) # day(e2))

\* a loop that forgets which rows it has merged
MarkUsedNever(used, j) == used

\* line 86
MarkUsed(used, j) == used \cup {j}

RECURSIVE Scan(_, _, _, _, _)
\* lines 72-86: the inner loop of seed i from row j on
Scan(wv, i, j, cluster, used) ==
    IF j > Len(wv) THEN [cluster |-> cluster, used |-> used]
    ELSE IF j \notin used /\ Merges(wv[i], wv[j])
         THEN Scan(wv, i, j + 1, Append(cluster, j), MarkUsed(used, j))
         ELSE Scan(wv, i, j + 1, cluster, used)

RECURSIVE Seeds(_, _, _, _)
\* lines 68-90: the outer loop from row i on; every seed tried is kept with
\* the rows it merged and the rows that were used when its scan began
Seeds(wv, i, used, tried) ==
    IF i > Len(wv) THEN tried
    ELSE IF i \in used THEN Seeds(wv, i + 1, used, tried)
    ELSE LET s == Scan(wv, i, i + 1, <<i>>, used)
         IN  Seeds(wv, i + 1,
                   IF Len(s.cluster) >= 2 THEN s.used \cup {i} ELSE s.used,
                   Append(tried, [cluster |-> s.cluster, used |-> used]))

\* lines 51-61 and 88-89: the rows clustered, and the seeds tried
repeated_thoughts(tbl, t) ==
    LET events == get_recent_events(tbl, t, 14, 100)
        with_vectors == SelectSeq(events, HasVector)
    IN  IF Len(events) < 5 \/ Len(with_vectors) < 3
        THEN [with_vectors |-> with_vectors, tried |-> <<>>]
        ELSE [with_vectors |-> with_vectors, tried |-> Seeds(with_vectors, 1, {}, <<>>)]

\* a report of every cluster found
ClustersAll(tried) ==
    LET kept == SelectSeq(tried, LAMBDA s : Len(s.cluster) >= 2)
    IN  [i \in 1..Len(kept) |-> kept[i].cluster]

\* line 88: the clusters of at least two rows, and line 93: the first three
Clusters(tried) ==
    LET kept == SelectSeq(tried, LAMBDA s : Len(s.cluster) >= 2)
    IN  Head_n([i \in 1..Len(kept) |-> kept[i].cluster], 3)

\* the titles of rows, by which the evidence of a finding names them
Titles(rows) == [i \in 1..Len(rows) |-> rows[i].id]

Insight(insight_type, evidence, confidence, theme) ==
    [insight_type |-> insight_type, evidence |-> evidence, confidence |-> confidence,
     theme |-> theme, dismissed |-> FALSE]

\* lines 117-119: the substring tests on event_type
IsCalendar(e) == e.event_type \in {"calendar.meeting"}

IsCode(e) == e.event_type \in {"code.committed", "code.pr.opened"}

IsNote(e) == e.event_type \in {"note.created", "note.updated"}

\* line 122
DriftCondition(calendar, work) == calendar > 3 /\ work < 2

\* _detect_goal_drift, lines 115-133
detect_goal_drift(tbl, t) ==
    LET events == get_recent_events(tbl, t, 7, DriftLimit)
        calendar_events == SelectSeq(events, IsCalendar)
        code_events == SelectSeq(events, IsCode)
        note_events == SelectSeq(events, IsNote)
    IN  IF DriftCondition(Len(calendar_events), Len(code_events) + Len(note_events))
        THEN << Insight("goal_drift", Titles(Head_n(calendar_events, 3)), 65, "") >>
        ELSE <<>>

\* lines 142-143: "?" or one of the other markers occurs in the content,
\* "why" in any case
IsQuestion(e) == e.content \in {"what?", "WHY so"}

\* a threshold of more than three questions
EnoughQuestionsStrict(n) == n > 3

\* line 146
EnoughQuestions(n) == n >= 3

\* _detect_knowledge_gaps, lines 140-157
detect_knowledge_gaps(tbl, t) ==
    LET events == get_recent_events(tbl, t, 14, 100)
        question_like == SelectSeq(events, IsQuestion)
        topics == Titles(Head_n(question_like, 5))
    IN  IF EnoughQuestions(Len(question_like))
        THEN << Insight("knowledge_gap", Head_n(topics, 3), 60, "") >>
        ELSE <<>>

\* lines 94-107: the finding of a cluster whose theme the collaborator gave
ThoughtInsight(with_vectors, cluster, theme) ==
    LET titles == [i \in 1..Len(cluster) |-> with_vectors[cluster[i]].id]
    IN  Insight("repeated_thought", Head_n(titles, 3), 85, theme)

\* a save that numbers the findings of every run from 1, so that INSERT OR
\* REPLACE overwrites the rows of the run before
SaveOverwrite(tbl, found) ==
    [i \in 1..Max(Len(tbl), Len(found)) |->
        IF i <= Len(found)
        THEN [id |-> i, data |-> found[i], dismissed |-> found[i].dismissed]
        ELSE tbl[i]]

\* Database.save_insight for each finding: a row with a fresh id (a uuid4,
\* models.py line 70), its data and its dismissed column
Save(tbl, found) ==
    tbl \o [i \in 1..Len(found) |->
               [id |-> Len(tbl) + i, data |-> found[i], dismissed |-> found[i].dismissed]]

\* Database.dismiss_insight: UPDATE insights SET dismissed = 1 WHERE id = ?
dismiss(tbl, id) ==
    [i \in 1..Len(tbl) |-> IF tbl[i].id = id THEN [tbl[i] EXCEPT !.dismissed = TRUE] ELSE tbl[i]]

\* Database.get_active_insights: the data of the rows that are not
\* dismissed, the row created last first; to_dict carries the id
get_active_insights(tbl) ==
    LET active == SelectSeq(tbl, LAMBDA row : ~row.dismissed)
    IN  [i \in 1..Len(active) |->
            [id |-> active[Len(active) + 1 - i].id] @@ active[Len(active) + 1 - i].data]

\* lines 33-45 of analyze: the other two analyzers, then the save
Finish(a) ==
    LET found == a.insights \o detect_goal_drift(events_table, now)
                            \o detect_knowledge_gaps(events_table, now)
    IN  /\ analysis' = [a EXCEPT !.pc = "returned", !.insights = found]
        /\ insights' = Save(insights, found)

\* lines 25-30 of analyze, up to the first theme request of
\* _detect_repeated_thoughts or, without a cluster, to the return of analyze
StartAnalyze ==
    LET r == repeated_thoughts(events_table, now)
        a == [NoAnalysis EXCEPT !.with_vectors = r.with_vectors, !.tried = r.tried,
                                !.clusters = Clusters(r.tried)]
    IN  /\ IF a.clusters = <<>>
           THEN Finish(a)
           ELSE /\ analysis' = [a EXCEPT !.pc = "theme"]
                /\ UNCHANGED insights
        /\ UNCHANGED <<retrieval, embedVars, syncVars>>

\* the first call of analyze
analyze == analysis.pc = "none" /\ StartAnalyze

\* POST /insights/analyze or the nightly trigger, after an earlier run has
\* returned: a new InsightAgent runs analyze
run_analysis == analysis.pc = "returned" /\ Len(insights) < MaxSaved /\ StartAnalyze

\* POST /insights/{insight_id}/dismiss
dismiss_insight(insight_id) ==
    /\ insights' = dismiss(insights, insight_id)
    /\ UNCHANGED <<retrieval, analysis, embedVars, syncVars>>

\* _extract_cluster_theme returns for the next cluster: the text the
\* collaborator answered
extract_cluster_theme_return(answer) ==
    LET k == Len(analysis.insights) + 1
        a == [analysis EXCEPT !.insights =
                 Append(@, ThoughtInsight(analysis.with_vectors, analysis.clusters[k], answer))]
    IN  /\ analysis.pc = "theme"
        /\ IF k = Len(analysis.clusters)
           THEN Finish(a)
           ELSE /\ analysis' = a
                /\ UNCHANGED insights
        /\ UNCHANGED <<retrieval, embedVars, syncVars>>

LlmAnswers == {"theme", "error text"}

\* rows the analyzers read: a commit and a note of today, near each other;
\* a commit of yesterday at exactly the threshold from the first; a note
\* near the third but not the first, asking a question; a meeting that was
\* not embedded
InsightPool ==
    { Event("n1", "github", "code.committed", 0, "a0", "plain"),
      Event("n2", "markdown_files", "note.created", 0, "a1", "what?"),
      Event("n3", "github", "code.committed", 1, "a2", "plain"),
      Event("n4", "markdown_files", "note.updated", 0, "a3", "WHY so"),
      Event("n5", "google_calendar", "calendar.meeting", 0, "zero", "plain") }

Meeting(age) == Event("m", "google_calendar", "calendar.meeting", age, "b", "plain")

Repeat(x, n) == [i \in 1..n |-> x]

Commit == Event("n1", "github", "code.committed", 0, "a0", "plain")

Note == Event("n2", "markdown_files", "note.created", 0, "a1", "what?")

WorkLists == {<<>>, <<Commit>>, <<Commit, Note>>, <<Note, Commit, Note>>}

\* a week of three or four meetings, with older meetings or without, and
\* some work before or after them
DriftStores ==
    LET meetings == {Repeat(Meeting(DayLen), a) \o Repeat(Meeting(8 * DayLen), o) :
                        a \in {3, 4}, o \in {0, 2}}
    IN  {m \o w : m \in meetings, w \in WorkLists} \cup {w \o m : m \in meetings, w \in WorkLists}

\* a week with as many meetings as one sample holds, and two rows of work
\* before or after them
LongStores ==
    { Repeat(Meeting(DayLen), DriftLimit) \o <<Commit, Note>>,
      <<Commit, Note>> \o Repeat(Meeting(DayLen), DriftLimit) }

\* two weeks in which four themes recur: a commit of today with two notes
\* and a meeting of today near it, then three pairs of a commit and a note
\* on a theme of their own, and a meeting that was not embedded
ClusterStores ==
    { << Commit, Note,
         Event("n6", "markdown_files", "note.updated", 0, "a1", "plain"),
         Event("n7", "google_calendar", "calendar.meeting", 0, "a1", "plain"),
         Event("p1", "github", "code.committed", 0, "a3", "plain"),
         Event("p2", "markdown_files", "note.created", 0, "a3", "plain"),
         Event("p3", "github", "code.committed", 0, "b", "plain"),
         Event("p4", "markdown_files", "note.created", 0, "b", "plain"),
         Event("p5", "github", "code.committed", 0, "c", "plain"),
         Event("p6", "markdown_files", "note.created", 0, "c", "plain"),
         Event("n5", "google_calendar", "calendar.meeting", 0, "zero", "plain") >> }

InsightStores ==
    SeqsOf(InsightPool, MaxEvents) \cup DriftStores \cup LongStores \cup ClusterStores

InitInsight ==
    /\ events_table \in InsightStores
    /\ sync_cursors = <<>>
    /\ instances = {}
    /\ now = 0
    /\ att = [s \in Slots |-> IdleAtt]
    /\ cycle = IdleCycle
    /\ started = 0
    /\ last = NoCall
    /\ EmbedIdle
    /\ retrieval = NoRetrieve
    /\ analysis = NoAnalysis
    /\ insights = <<>>

NextInsight ==
    \/ analyze
    \/ \E answer \in LlmAnswers : extract_cluster_theme_return(answer)

SpecInsight == InitInsight /\ [][NextInsight]_vars

\* stores that are not written while the findings are made and dismissed:
\* the two weeks of four themes, and a day of notes that ask a question
FindingStores == ClusterStores \cup {Repeat(Note, 5)}

InitFindings ==
    /\ events_table \in FindingStores
    /\ sync_cursors = <<>>
    /\ instances = {}
    /\ now = 0
    /\ att = [s \in Slots |-> IdleAtt]
    /\ cycle = IdleCycle
    /\ started = 0
    /\ last = NoCall
    /\ EmbedIdle
    /\ retrieval = NoRetrieve
    /\ analysis = NoAnalysis
    /\ insights = <<>>

NextFindings ==
    \/ analyze
    \/ run_analysis
    \/ \E answer \in LlmAnswers : extract_cluster_theme_return(answer)
    \/ \E i \in 1..Len(insights) : dismiss_insight(insights[i].id)

SpecFindings == InitFindings /\ [][NextFindings]_vars

\* a store that holds two records of one theme among five of two weeks
ReaderStore ==
    << Row("r1", "github", 0, "v18"), Row("r2", "github", 0, "v19"),
       Row("r3", "markdown_files", 6 * DayLen + 1, "v18"),
       Row("r5", "github", 15 * DayLen, "v60"), Row("r6", "markdown_files", 0, "v21") >>

\* the service after its first embed call, the github connector enabled, and
\* a store that is empty or was filled before
InitReaders ==
    /\ ReadIdle
    /\ calls = <<>>
    /\ semaphore = <<>>
    /\ cache = <<>>
    /\ ollama_available \in {"yes", "no"}
    /\ openai_key \in BOOLEAN
    /\ batch = NoBatch
    /\ providers = AnyAnswer
    /\ events_table \in {<<>>, ReaderStore}
    /\ sync_cursors = <<>>
    /\ instances = {"github"}
    /\ now = 0
    /\ att = [s \in Slots |-> IdleAtt]
    /\ cycle = IdleCycle
    /\ started = 0
    /\ last = NoCall

\* the periodic sync, and the chat route, the search route and the analysis
\* route called at any time
NextReaders ==
    \/ SyncAll
    \/ SyncAllReturn
    \/ \E s \in Slots : FetchRaise(s)
    \/ \E s \in Slots, ev \in FetchResults : FetchReturn(s, ev)
    \/ \E s \in Slots : EmbedBatchDone(s)
    \/ \E source_filter \in SourceFilters : retrieve(Word(1), MaxLimit, 0, source_filter)
    \/ get_context_for_agent(Word(1), LookbackDays)
    \/ Returns
    \/ retrieve_return
    \/ analyze
    \/ \E answer \in LlmAnswers : extract_cluster_theme_return(answer)

SpecReaders == InitReaders /\ [][NextReaders]_vars

(***************************************************************************)
(* Properties of retrieval                                                 *)
(***************************************************************************)
\* C14: a retrieve call with an empty or whitespace-only query returns what
\* get_recent_events(days=7, limit) returns, in the same order, and makes
\* no embed call and no similarity search.
C14_BlankQueryIsRecency ==
    [][\A query \in Queries, limit \in 1..MaxLimit, days_filter \in DaysFilters,
          source_filter \in SourceFilters :
          (strip(query) = <<>> /\ retrieve(query, limit, days_filter, source_filter)) =>
              /\ retrieval'.pc = "returned"
              /\ retrieval'.results = get_recent_events(events_table, now, RecentDays, limit)
              /\ retrieval'.searches = 0
              /\ calls' = calls]_vars

\* a whitespace-only query has returned rows of a store that also holds a
\* row outside the 7-day window and more window rows than the limit
C14_Witness ==
    /\ retrieval.pc = "returned"
    /\ retrieval.query = <<" ">>
    /\ retrieval.results # <<>>
    /\ Len(retrieval.results) = retrieval.limit
    /\ \E i \in 1..Len(events_table) : events_table[i].timestamp < 0 - RecentDays * DayLen
    /\ Len(get_recent_events(events_table, now, RecentDays, MaxRows)) > retrieval.limit
    /\ calls = <<>>

\* the candidates retrieve has scored, once it has returned on the scored path
ScoredCandidates ==
    IF retrieval.pc = "returned" /\ retrieval.path = "scored"
    THEN {retrieval.scored[i] : i \in 1..Len(retrieval.scored)}
    ELSE {}

SameAge(a, b) == days_ago(now, a) = days_ago(now, b)

Passing ==
    {c \in ScoredCandidates :
        /\ retrieval.source_filter # "" => c.source = retrieval.source_filter
        /\ retrieval.days_filter # 0 => c.timestamp >= now - retrieval.days_filter * DayLen}

Members(cluster) == {cluster[i] : i \in 1..Len(cluster)}

\* C17: a later record that is not yet in a cluster joins the cluster of the
\* current seed if and only if its similarity to the seed is strictly above
\* 0.82 and it differs from the seed by source or by calendar day.
C17_MergeCondition ==
    \A a \in 1..Len(analysis.tried) :
        LET wv == analysis.with_vectors
            cluster == analysis.tried[a].cluster
            seed == cluster[1]
        IN  \A j \in (seed + 1)..Len(wv) :
                j \notin analysis.tried[a].used =>
                    (j \in Members(cluster) <=>
                        /\ cosine(wv[seed].vector, wv[j].vector) > 82
                        /\ (wv[seed].source # wv[j].source \/ day(wv[seed]) # day(wv[j])))

\* analyze has returned, and one seed met a record at 0.83 from another
\* source, which joined, a record at exactly 0.82 from another day, which
\* did not, and a record of its own source and day at 1.0, which did not
C17_Witness ==
    /\ analysis.pc = "returned"
    /\ \E a \in 1..Len(analysis.tried) :
          LET wv == analysis.with_vectors
              cluster == analysis.tried[a].cluster
              seed == cluster[1]
              later == {j \in (seed + 1)..Len(wv) : j \notin analysis.tried[a].used}
          IN  /\ \E j \in later : /\ cosine(wv[seed].vector, wv[j].vector) = 83
                                  /\ wv[seed].source # wv[j].source
                                  /\ j \in Members(cluster)
              /\ \E j \in later : /\ cosine(wv[seed].vector, wv[j].vector) = 82
                                  /\ day(wv[seed]) # day(wv[j])
                                  /\ j \notin Members(cluster)
              /\ \E j \in later : /\ cosine(wv[seed].vector, wv[j].vector) = 100
                                  /\ wv[seed].source = wv[j].source
                                  /\ day(wv[seed]) = day(wv[j])
                                  /\ j \notin Members(cluster)

\* C18: no record is in two clusters of one run: a record merged into a
\* cluster is not the seed of a later one and does not join a later one.
C18_ClusterExclusive ==
    \A a, b \in 1..Len(analysis.tried) :
        a # b => Members(analysis.tried[a].cluster) \cap Members(analysis.tried[b].cluster) = {}

\* analyze has returned with a cluster one of whose merged records also
\* passes the merge test against a later seed that came before it
C18_Witness ==
    /\ analysis.pc = "returned"
    /\ \E a, b \in 1..Len(analysis.tried) :
          LET wv == analysis.with_vectors
              seed == analysis.tried[b].cluster[1]
          IN  /\ a < b
              /\ \E j \in Members(analysis.tried[a].cluster) :
                    /\ j > seed
                    /\ cosine(wv[seed].vector, wv[j].vector) > 82
                    /\ (wv[seed].source # wv[j].source \/ day(wv[seed]) # day(wv[j]))

\* the findings of one type that analyze returned
Findings(insight_type) ==
    SelectSeq(analysis.insights, LAMBDA f : f.insight_type = insight_type)

Count(rows, Test(_)) == Len(SelectSeq(rows, Test))

\* all rows of the store written in the last days days
Window(days) == SelectSeq(events_table, LAMBDA e : e.timestamp >= now - days * DayLen)

\* exactly one goal-drift finding of confidence 0.65 if the rows hold more
\* than 3 calendar rows and fewer than 2 code or note rows, otherwise none
DriftFindingIff(rows) ==
    IF Count(rows, IsCalendar) > 3 /\ Count(rows, IsCode) + Count(rows, IsNote) < 2
    THEN Len(Findings("goal_drift")) = 1 /\ Findings("goal_drift")[1].confidence = 65
    ELSE Findings("goal_drift") = <<>>

\* C19: for every store, the goal-drift analyzer returns exactly one finding
\* of confidence 0.65 if all records of the last 7 days hold more than 3
\* calendar rows and fewer than 2 code or note rows, and none otherwise.
C19_DriftOverWeek == analysis.pc = "returned" => DriftFindingIff(Window(7))

\* C20: exactly one knowledge-gap finding, with at most 3 evidence entries
\* and confidence 0.6, if at least 3 rows of the 14-day sample contain an
\* interrogative marker, and none if fewer do.
C20_KnowledgeGap ==
    analysis.pc = "returned" =>
        IF Count(get_recent_events(events_table, now, 14, 100), IsQuestion) >= 3
        THEN /\ Len(Findings("knowledge_gap")) = 1
             /\ Len(Findings("knowledge_gap")[1].evidence) <= 3
             /\ Findings("knowledge_gap")[1].confidence = 60
        ELSE Findings("knowledge_gap") = <<>>

\* analyze has returned a knowledge-gap finding with 3 evidence entries for a
\* sample with more than 3 questions
C20_Witness ==
    /\ analysis.pc = "returned"
    /\ Count(get_recent_events(events_table, now, 14, 100), IsQuestion) > 3
    /\ Len(Findings("knowledge_gap")) = 1
    /\ Len(Findings("knowledge_gap")[1].evidence) = 3

(***************************************************************************)
(* Properties of the context digest                                        *)
(***************************************************************************)
RECURSIVE SplitLines(_)
\* the lines of a string: the pieces between its line breaks
SplitLines(s) ==
    IF \A i \in 1..Len(s) : s[i] # "\n" THEN <<s>>
    ELSE LET k == CHOOSE i \in 1..Len(s) :
                      s[i] = "\n" /\ \A j \in 1..(i - 1) : s[j] # "\n"
         IN  <<SubSeq(s, 1, k - 1)>> \o SplitLines(SubSeq(s, k + 1, Len(s)))

\* the line is made of the date, the source and the title of the record
IsLineOf(line, e) ==
    /\ Len(line) >= 5
    /\ line[2] = DateText(e)
    /\ line[4] = e.source
    /\ SubSeq(line, 6, Len(line)) = TitleText(e)

\* C21: get_context_for_agent always returns a non-empty string: the fixed
\* placeholder when retrieve returned no record, otherwise exactly one line
\* (date, source, title) per returned record, in the order retrieve
\* returned them.
C21_ContextDigest ==
    (retrieval.agent /\ retrieval.pc = "returned") =>
        LET events == retrieval.results
            lines == SplitLines(retrieval.context)
        IN  /\ retrieval.context # <<>>
            /\ events = <<>> => retrieval.context = Placeholder
            /\ events # <<>> =>
                   /\ Len(lines) = Len(events)
                   /\ \A i \in 1..Len(events) : IsLineOf(lines[i], events[i])

(***************************************************************************)
(* Properties of overlapping and repeated sync attempts                    *)
(***************************************************************************)
\* the rows of the store that connector p wrote for this id
StoredBy(tbl, p, id) == Cardinality({i \in 1..Len(tbl) : tbl[i].id = id /\ tbl[i].source = p})

\* C22: when two sync attempts of the same connector overlap and both fetch
\* a record with the same id, the record is inserted at most once: the
\* persist step of an attempt that holds the id once among its new events
\* never leaves a second row of that id and connector in the store.
C22_OverlapInsertsOnce ==
    [][\A s \in Slots : \A id \in EventIds :
          (/\ att[s].pc = "embedding"
           /\ Ends(s)
           /\ CountId(att[s].new_events, id) = 1
           /\ StoredBy(events_table, PluginOf(s), id) <= 1)
              => StoredBy(events_table', PluginOf(s), id) <= 1]_vars

\* the outcomes of an attempt that fetched and then failed or was abandoned:
\* at the await of embed_batch, or at an insert of the persist loop
FailedAfterFetch == {"embed_failed", "persist_failed"}

\* C23: an attempt abandoned or failing after its fetch leaves a state from
\* which the next complete attempt of the same connector, given the same
\* fetch result, ends with every fetched id stored exactly once and the
\* cursor advanced.
C23_RetryCompletes ==
    [][(/\ last.outcome \in FailedAfterFetch
        /\ last' # last
        /\ last'.outcome \in Completed
        /\ PluginOf(last'.slot) = PluginOf(last.slot)
        /\ last'.fetched = last.fetched)
           => /\ \A id \in Ids(last.fetched) : CountId(events_table', id) = 1
              /\ last'.wrote
              /\ has_last_sync(sync_cursors', PluginOf(last.slot))
              /\ sync_cursors'[PluginOf(last.slot)] = now]_vars

\* the attempt of slot s will still bring the note: it holds it among its
\* fetched events, or it has yet to fetch with a since below the note's
\* timestamp
Pending(s, id) ==
    \/ att[s].pc = "embedding" /\ id \in att[s].ids
    \/ att[s].pc = "fetching" /\ att[s].since < Mtime(id)

\* C24: no upstream record is skipped by the cursor: a note written
\* upstream with a timestamp at or below the stored cursor is in the store,
\* or an attempt in flight still brings it; otherwise no later fetch, whose
\* since is the stored cursor or later, returns it.
C24_NoSkip ==
    \A id \in EventIds :
        (/\ has_last_sync(sync_cursors, "markdown_files")
         /\ Mtime(id) <= sync_cursors["markdown_files"])
            => \/ event_exists(events_table, id)
               \/ \E s \in Slots : PluginOf(s) = "markdown_files" /\ Pending(s, id)

\* an attempt holds the id among the events its fetch returned
Fetched(id) == \E s \in Slots : att[s].pc = "embedding" /\ id \in att[s].ids

CallsEmbedder(s) == att[s].pc = "fetching" /\ att'[s].pc = "embedding"

\* the events given to the embedder are the fetched events whose id is not
\* in the store at this step, and there is at least one
OnlyAbsent(s) ==
    LET new == att'[s].new_events
    IN  /\ new # <<>>
        /\ \A i \in 1..Len(new) :
               new[i].id \in att'[s].ids /\ ~event_exists(events_table, new[i].id)
        /\ \A id \in att'[s].ids :
               ~event_exists(events_table, id) => \E i \in 1..Len(new) : new[i].id = id

\* the attempt of slot s ends after its fetch returned, without a call of
\* the embedder: every fetched id is in the store
NoCallWhenAllStored(s) ==
    (att[s].pc = "fetching" /\ Ends(s) /\ last'.outcome \in Completed) =>
        \A id \in last'.ids : event_exists(events_table, id)

\* C26 as stated: the embedder gets only the records absent from the store
\* at dedup time, no call is made when every fetched id is stored, and in
\* every attempt the number of texts given to embed_batch equals the number
\* of records then inserted.
C26_EmbedEqualsInserted ==
    [][\A s \in Slots :
          /\ CallsEmbedder(s) => OnlyAbsent(s)
          /\ NoCallWhenAllStored(s)
          /\ (att[s].pc = "embedding" /\ Ends(s)) =>
                 last'.n_ins = Len(att[s].new_events)]_vars

\* C26: the embedder gets only the records absent from the store at dedup
\* time, no call is made when every fetched id is stored, the records
\* inserted are the first ones of the records embedded, never more than the
\* texts given to embed_batch, and as many as the texts when the attempt
\* runs to its end.
C26_DedupPrecedesEmbedding ==
    [][\A s \in Slots :
          /\ CallsEmbedder(s) => OnlyAbsent(s)
          /\ NoCallWhenAllStored(s)
          /\ (att[s].pc = "embedding" /\ Ends(s)) =>
                 /\ last'.n_ins <= Len(att[s].new_events)
                 /\ events_table' = Persist(events_table, att[s].new_events, last'.n_ins)
                 /\ last'.outcome = "ok" => last'.n_ins = Len(att[s].new_events)]_vars

\* an attempt that fetched a stored id and a new one has embedded and
\* inserted the new one only
C26_Witness ==
    /\ last.outcome = "ok"
    /\ Cardinality(last.ids) = 2
    /\ last.n_new = 1
    /\ last.n_ins = 1
    /\ Len(events_table) = 2

\* C27: sync_plugin_now for a connector that is not enabled returns a
\* failure result, starts no attempt and changes neither the store nor a
\* cursor; for an enabled connector it returns success, and its attempt,
\* like a scheduled one, leaves exactly the store and the cursors that
\* _sync_plugin leaves from the same store, cursors and fetch result, and
\* leaves them unchanged when the fetch or the embedding fails.
C27_OnDemandAsScheduled ==
    [][/\ \A p \in Plugins \ instances : att'[<<"now", p>>].pc = "idle"
       /\ (last' # last /\ last'.outcome = "not_enabled") =>
              /\ ~sync_plugin_now_result(last').success
              /\ events_table' = events_table
              /\ sync_cursors' = sync_cursors
       /\ \A s \in Slots :
              /\ (Ends(s) /\ s[1] = "now") => sync_plugin_now_result(last').success
              /\ (Ends(s) /\ last'.outcome \in Completed) =>
                     <<events_table', sync_cursors'>> =
                         sync_plugin(events_table, sync_cursors, PluginOf(s), last'.fetched, now)
              /\ (Ends(s) /\ last'.outcome \in {"fetch_failed", "embed_failed"}) =>
                     /\ events_table' = events_table
                     /\ sync_cursors' = sync_cursors]_vars

\* an on-demand sync has inserted a new record next to one a scheduled
\* attempt had stored, and has replaced the cursor that attempt wrote
C27_Witness ==
    /\ last.slot[1] = "now"
    /\ last.outcome = "ok"
    /\ last.replaced
    /\ last.n_ins = 1
    /\ Len(events_table) = 2
    /\ sync_cursors[PluginOf(last.slot)] > 0

(***************************************************************************)
(* Properties of concurrent embed calls                                    *)
(***************************************************************************)
\* C28: when two embed calls for texts with the same normalized form are in
\* flight at the same time, the provider is called once for that text: at
\* most one of the two calls goes to the provider chain.
C28_SingleFlight ==
    \A i, j \in 1..Len(calls) :
        (i < j /\ SameText(calls[i], calls[j])) =>
            ~(calls[i].tried # <<>> /\ calls[j].tried # <<>>)

\* C29: the limit of 5 in-flight embedding calls holds system-wide: while
\* several connector syncs run their embed_batch calls concurrently, the
\* embed calls that wait for a provider are never more than 5 in total.
C29_SystemWideLimit == InFlight <= SemLimit

\* the orders in which one embed call may try the members of the chain
Chains ==
    {<<>>, <<"ollama">>, <<"ollama", "openai">>, <<"ollama", "openai", "stub">>,
     <<"ollama", "stub">>, <<"openai">>, <<"openai", "stub">>, <<"stub">>}

\* call i tries provider p in this step
Tries(i, p) ==
    /\ calls'[i].tried # <<>>
    /\ calls'[i].tried[Len(calls'[i].tried)] = p
    /\ i \in 1..Len(calls) => Len(calls'[i].tried) = Len(calls[i].tried) + 1

\* when call i takes this step of its chain the primary is out for it: the
\* chain begins past the primary while the service holds it unavailable, or
\* the chain began so in an earlier step, or call i has called the primary
\* and the call has not answered a vector
PrimaryOut(i) ==
    LET tried == calls'[i].tried
    IN  \/ Len(tried) = 1 /\ ollama_available' = "no"
        \/ Len(tried) > 1 /\ tried[1] = "openai"
        \/ Len(tried) > 1 /\ tried[1] = "ollama" /\ calls'[i].vec.by # "ollama"

\* the secondary is not configured, or call i has called it and the call
\* has not answered a vector
SecondaryOut(i) ==
    \/ ~openai_key /\ \A k \in 1..Len(calls'[i].tried) : calls'[i].tried[k] # "openai"
    \/ /\ i \in 1..Len(calls)
       /\ calls[i].pc = "openai"
       /\ calls'[i].vec.by # "openai"

\* C30: every embed call that misses the cache tries the providers in the
\* fixed order primary, secondary, stub, and the vector it returns is the
\* answer of the last one it tried; the secondary is called only if the
\* primary is unavailable or its call failed, and the stub is used only if
\* the primary is unavailable or failed and the secondary is unconfigured or
\* failed.
C30_FallbackOrder ==
    /\ [](\A i \in 1..Len(calls) :
             /\ calls[i].tried \in Chains
             /\ (calls[i].pc = "done" /\ calls[i].tried # <<>>) =>
                    calls[i].vec.by = calls[i].tried[Len(calls[i].tried)])
    /\ [][\A i \in 1..Len(calls') :
             /\ Tries(i, "openai") => openai_key /\ PrimaryOut(i)
             /\ Tries(i, "stub") => PrimaryOut(i) /\ SecondaryOut(i)]_vars

\* one call has gone through the whole chain to the stub, and a later call,
\* made when the primary was known to be unavailable, got its vector from
\* the secondary provider without a request to the primary
C30_Witness ==
    \E i, j \in 1..Len(calls) :
        /\ i < j
        /\ calls[i].pc = "done" /\ calls[i].tried = <<"ollama", "openai", "stub">>
        /\ calls[j].pc = "done" /\ calls[j].tried = <<"openai">>
        /\ calls[j].vec.by = "openai"

(***************************************************************************)
(* Properties of the rerank, of the filters and of the store queries       *)
(***************************************************************************)
\* C31: every scored candidate, one at distance 0 included, has
\* semantic_score = 1 - distance and the final_score that follows from it,
\* and among candidates of equal age the one at the smaller distance has a
\* final_score that is not lower, and is higher when the distances are more
\* than one unit of the arithmetic's resolution apart.
C31_DistanceScored ==
    \A a \in ScoredCandidates :
        /\ semantic_score(a) = One - a.distance
        /\ a.score = final_score(One - a.distance, time_weight(days_ago(now, a)))
        /\ \A b \in ScoredCandidates :
               (SameAge(a, b) /\ a.distance < b.distance) =>
                   /\ a.score >= b.score
                   /\ a.distance + 1 < b.distance => a.score > b.score

\* C32: a retrieve call with a source_filter returns, on each of its three
\* paths, only records of that source.
C32_SourceFilterEverywhere ==
    (retrieval.pc = "returned" /\ retrieval.source_filter # "") =>
        \A i \in 1..Len(retrieval.results) :
            retrieval.results[i].source = retrieval.source_filter

\* the days of the window a recency path of retrieve asks for: lines 35, 42
WindowDays ==
    IF retrieval.path = "empty" /\ retrieval.days_filter # 0
    THEN retrieval.days_filter
    ELSE RecentDays

\* the stored rows inside the window of the recency path
WindowRows ==
    {r \in {events_table[i] : i \in 1..Len(events_table)} :
        r.timestamp >= now - WindowDays * DayLen}

\* C34: get_recent_events(days, limit) returns window rows, newest first,
\* as many as limit allows, and no returned row is older than a window row
\* that was left out.
C34_MostRecentOfWindow ==
    (retrieval.pc = "returned" /\ retrieval.path \in {"blank", "empty"}) =>
        LET res == retrieval.results
            out == {w \in WindowRows : \A i \in 1..Len(res) : res[i].id # w.id}
        IN  /\ \A i \in 1..Len(res) : res[i] \in WindowRows
            /\ Len(res) = Min(retrieval.limit, Cardinality(WindowRows))
            /\ \A i \in 1..(Len(res) - 1) : res[i].timestamp >= res[i + 1].timestamp
            /\ \A w \in out : \A i \in 1..Len(res) : res[i].timestamp >= w.timestamp

\* the stored rows whose vector is the all-zero sentinel
Sentinels == {events_table[i].id : i \in {k \in 1..Len(events_table) : ~HasVector(events_table[k])}}

\* C33: a stored record whose vector is the all-zero sentinel is never among
\* the candidates retrieve scores and never among the records it returns on
\* the scored path.
C33_SentinelNotScored ==
    (retrieval.pc = "returned" /\ retrieval.path = "scored") =>
        /\ \A c \in ScoredCandidates : c.id \notin Sentinels
        /\ \A i \in 1..Len(retrieval.results) : retrieval.results[i].id \notin Sentinels

(***************************************************************************)
(* Properties of the repeated-thought analyzer and of the stored findings  *)
(***************************************************************************)
\* the 14-day sample of the repeated-thought analyzer, and its rows that
\* carry a non-zero embedding
Sample == get_recent_events(events_table, now, 14, 100)

Embedded == SelectSeq(Sample, HasVector)

\* C35: the repeated-thought analyzer returns no finding when fewer than 3
\* sampled records carry a non-zero embedding, and it returns at least one
\* finding for a sample of 3 or 4 records that all carry a non-zero
\* embedding and hold a pair that satisfies the merge condition.
C35_OnlyThreeEmbedded ==
    analysis.pc = "returned" =>
        /\ Len(Embedded) < 3 => Findings("repeated_thought") = <<>>
        /\ (/\ Len(Sample) \in {3, 4}
            /\ Len(Embedded) = Len(Sample)
            /\ \E i, j \in 1..Len(Sample) : i < j /\ Merges(Sample[i], Sample[j]))
               => Findings("repeated_thought") # <<>>

\* the ids of the rows of a cluster, in the order they joined it
ClusterIds(cluster) == [i \in 1..Len(cluster) |-> analysis.with_vectors[cluster[i]].id]

\* C36: a run of the repeated-thought analyzer emits at most 3 findings;
\* the k-th finding comes from the k-th cluster found, clusters of different
\* findings share no record, each has at least 2 records, all with a
\* non-zero embedding, and the finding carries at most 3 evidence entries,
\* those of the first records of its cluster, and a confidence in [0, 1].
C36_FindingsBounded ==
    analysis.pc = "returned" =>
        LET found == Findings("repeated_thought")
            wv == analysis.with_vectors
            kept == SelectSeq(analysis.tried, LAMBDA s : Len(s.cluster) >= 2)
        IN  /\ Len(found) <= 3
            /\ Len(found) <= Len(kept)
            /\ \A k \in 1..Len(found) :
                   LET cluster == kept[k].cluster
                   IN  /\ Len(cluster) >= 2
                       /\ \A j \in Members(cluster) : HasVector(wv[j])
                       /\ \A l \in 1..Len(found) :
                              l # k => Members(cluster) \cap Members(kept[l].cluster) = {}
                       /\ Len(found[k].evidence) <= 3
                       /\ found[k].evidence = Head_n(ClusterIds(cluster), 3)
                       /\ found[k].confidence >= 0
                       /\ found[k].confidence <= One

\* a run over a sample with a record that was not embedded has found four
\* clusters and emitted three findings, the first for a cluster of four
\* records with three evidence entries
C36_Witness ==
    /\ analysis.pc = "returned"
    /\ Len(Findings("repeated_thought")) = 3
    /\ Len(SelectSeq(analysis.tried, LAMBDA s : Len(s.cluster) >= 2)) = 4
    /\ Len(analysis.tried[1].cluster) = 4
    /\ Len(Findings("repeated_thought")[1].evidence) = 3
    /\ Len(Embedded) < Len(Sample)

\* C37: no emitted cluster holds two records, seed or merged, of the same
\* source and the same calendar day.
C37_NoSameSourceSameDay ==
    analysis.pc = "returned" =>
        \A k \in 1..Len(analysis.clusters) :
            \A i, j \in Members(analysis.clusters[k]) :
                i # j => \/ analysis.with_vectors[i].source # analysis.with_vectors[j].source
                         \/ day(analysis.with_vectors[i]) # day(analysis.with_vectors[j])

\* line 177: the label _extract_cluster_theme returns when chat raises
FallbackLabel == "an important theme"

\* C38: whenever the collaborator fails on the theme request of a cluster,
\* the finding of the cluster is still emitted and its theme is the local
\* fallback label, not the text the failed call produced.
C38_FallbackOnFailure ==
    [][extract_cluster_theme_return("error text") =>
          LET k == Len(analysis.insights) + 1
          IN  /\ Len(analysis'.insights) >= k
              /\ analysis'.insights[k].insight_type = "repeated_thought"
              /\ analysis'.insights[k].theme = FallbackLabel]_vars

\* the ids of the saved findings
SavedIds(tbl) == {tbl[i].id : i \in 1..Len(tbl)}

\* what of a finding does not depend on the answer of the collaborator
Content(f) == [insight_type |-> f.insight_type, evidence |-> f.evidence,
               confidence |-> f.confidence]

\* C39: a stored finding changes only by its dismissal and is never removed;
\* a step of analyze only adds findings, with ids no stored finding has, and
\* alters no stored one; a run over an unchanged store saves the findings of
\* the run before once more; a dismissed finding stays dismissed and is not
\* among the findings get_active_insights returns.
C39_CreateAndDismissOnly ==
    /\ [][/\ Len(insights') >= Len(insights)
          /\ \A i \in 1..Len(insights) :
                 /\ insights'[i].id = insights[i].id
                 /\ insights'[i].data = insights[i].data
                 /\ insights[i].dismissed => insights'[i].dismissed
          /\ analysis' # analysis =>
                 /\ SubSeq(insights', 1, Len(insights)) = insights
                 /\ \A i \in (Len(insights) + 1)..Len(insights') :
                        /\ insights'[i].id \notin SavedIds(insights)
                        /\ \A j \in (Len(insights) + 1)..Len(insights') :
                               i # j => insights'[i].id # insights'[j].id]_vars
    /\ [](analysis.pc = "returned" =>
             LET n == Len(analysis.insights)
             IN  /\ Len(insights) >= n
                 /\ \A i \in 1..n :
                        insights[Len(insights) - n + i].data = analysis.insights[i]
                 /\ \A i \in (n + 1)..Len(insights) :
                        Content(insights[i].data) = Content(insights[i - n].data))
    /\ [](\A i \in 1..Len(insights) :
             insights[i].dismissed =>
                 \A k \in 1..Len(get_active_insights(insights)) :
                     get_active_insights(insights)[k].id # insights[i].id)

\* a finding of the first run was dismissed, a second run over the same
\* store has saved the same findings again under new ids, and the dismissed
\* one is still dismissed while its new copy is active
C39_Witness ==
    /\ analysis.pc = "returned"
    /\ Len(analysis.insights) = 3
    /\ Len(insights) = 6
    /\ insights[1].dismissed
    /\ ~insights[4].dismissed
    /\ Content(insights[4].data) = Content(insights[1].data)
    /\ Len(get_active_insights(insights)) = 5

(***************************************************************************)
(* Properties of reads that run while a sync is in flight                  *)
(***************************************************************************)
\* a step of retrieve, of get_context_for_agent, of analyze, or of an embed
\* call made by one of them
ReadStep ==
    \/ retrieval' # retrieval
    \/ analysis' # analysis
    \/ insights' # insights
    \/ calls' # calls

\* the store the attempt of slot s ends with, and whether it writes its
\* cursor, when its embed_batch call returns in this state
EndOfSync(s) ==
    LET new == att[s].new_events
        k == IF InsertRaises(BatchDim) THEN 0 ELSE Len(new)
    IN  [events_table |-> Persist(events_table, new, k), wrote |-> k = Len(new)]

\* C40: every step of retrieve, get_context_for_agent and analyze leaves the
\* stored records and the cursors unchanged, and leaves unchanged the store
\* and cursor state in which a sync attempt in flight ends.
C40_ReadersInvisible ==
    [][ReadStep =>
          /\ UNCHANGED <<events_table, sync_cursors>>
          /\ \A s \in Slots : att[s].pc = "embedding" => EndOfSync(s)' = EndOfSync(s)]_vars

\* every step of a read leaves the store, the cursors and the attempts as
\* they are
ReadersFrame ==
    [][ReadStep => UNCHANGED <<events_table, sync_cursors, instances, att, cycle, last>>]_vars

=============================================================================
